---- MODULE Spec2Model ----
(***************************************************************************)
(* Bill lifecycle aggregation of the analysis notebook: the duration cell  *)
(* (to_datetime, withdrawn filter, seven day gaps) and the stage           *)
(* conversion cell (five conversion rates, seven duration means).          *)
(*                                                                         *)
(* A table is a sequence of rows, a row a record keyed by column name.     *)
(* A date cell is a record [k, d, h]:                                      *)
(*   k = "null"  JSON null                                                 *)
(*   k = "bad"   a string pandas cannot parse                              *)
(*   k = "str"   a date string, calendar day d, hour of day h              *)
(*   k = "ts"    a pandas Timestamp, calendar day d, hour of day h         *)
(*   k = "NaT"   pandas NaT                                                *)
(* A float is a record [k, n, d]: k = "num" is the rational n/d, k = "nan" *)
(* is NaN, k = "inf" is +Infinity.                                         *)
(***************************************************************************)
EXTENDS Integers, Sequences, FiniteSets, TLC

VARIABLES
    loaded,        \* bill_details as read_json returned it (never assigned again)
    bill_details,  \* the notebook's bill_details variable
    conv,          \* total, cmt_meet, cmt_proc, law_meet, law_proc, proc
    rates,         \* the five printed conversion rates
    means,         \* the cell's value: the seven duration means
    err,           \* the exception the cell raised, "none" if none
    pc,            \* "loaded", "durations", "done" or "aborted"
    bills,         \* bills.json: BILL_ID, BILL_NAME, COMMITTEE_NAME, STATUS
    proposers,     \* proposer_bills.json: BILL_ID, PROPOSER_ID, PROPOSER_TYPE
    members,       \* cur_members.json: MONA_CD, POLY_NM
    committe_stats,
    top_bills,     \* what the loop over committees prints, by committee
    member_ratio,
    bp,
    ana,
    raised,        \* the exception the co-sponsorship cell raised, "none" if none
    bill_props,
    lead_props,
    data,
    nb,            \* the notebook section about to run
    files,         \* the extracted json files, in os.listdir order
    alter2,
    error,
    fpos,          \* how many files the validation loop has gone through
    hk,            \* the hook or helper about to be called, "returned" after it
    input,         \* the array or string passed to it
    param,         \* its other argument, the filter
    output,        \* what it returned
    activeTab,     \* Dashboard state
    selectedMember,
    selectedAge,
    um,            \* the state of useMembers: members, loading, error
    calls,         \* the getMembers calls made, each with its effect's mounted flag
    page,          \* the static page: currentPolitician and the document
    tasks          \* the async functions of the static page that were started

durVars == <<loaded, bill_details, conv, rates, means, err, pc>>
inputVars == <<bills, proposers, members>>
committeeVars == <<committe_stats, top_bills>>
partyVars == <<member_ratio, bp, ana, raised, bill_props, lead_props, data>>
tableVars == <<committeeVars, partyVars, nb>>
fileVars == <<files, alter2, error, fpos>>
backVars == <<durVars, inputVars, tableVars, fileVars>>
hookVars == <<hk, input, param, output>>
dashVars == <<activeTab, selectedMember, selectedAge>>
fetchVars == <<um, calls>>
staticVars == <<page, tasks>>
frontVars == <<hookVars, dashVars, fetchVars, staticVars>>

vars == <<backVars, frontVars>>

----------------------------------------------------------------------------
(* Bounds of the checked inputs *)

MaxBills == 3
MaxDay == 1

----------------------------------------------------------------------------
(* Program constants *)

WITHDRAWN == "철회"
HoursPerDay == 24
SENTINEL == -1
RateDigits == 3

date_cols ==
    << "COMMITTEE_DT", "CMT_PRESENT_DT", "CMT_PROC_DT", "LAW_SUBMIT_DT",
       "LAW_PRESENT_DT", "LAW_PROC_DT", "PROC_DT" >>

\* the table below with TOTAL_DT ending at LAW_PROC_DT
duration_cols_short_total ==
    << [col |-> "CMT_MEET", later |-> "CMT_PRESENT_DT", earlier |-> "COMMITTEE_DT"],
       [col |-> "CMT_PROC", later |-> "CMT_PROC_DT",    earlier |-> "CMT_PRESENT_DT"],
       [col |-> "LAW_",     later |-> "LAW_SUBMIT_DT",  earlier |-> "CMT_PROC_DT"],
       [col |-> "LAW_MEET", later |-> "LAW_PRESENT_DT", earlier |-> "LAW_SUBMIT_DT"],
       [col |-> "LAW_PROC", later |-> "LAW_PROC_DT",    earlier |-> "LAW_PRESENT_DT"],
       [col |-> "PROC",     later |-> "PROC_DT",        earlier |-> "LAW_PROC_DT"],
       [col |-> "TOTAL_DT", later |-> "LAW_PROC_DT",    earlier |-> "COMMITTEE_DT"] >>

\* column = later - earlier, in assignment order
duration_cols ==
    << [col |-> "CMT_MEET", later |-> "CMT_PRESENT_DT", earlier |-> "COMMITTEE_DT"],
       [col |-> "CMT_PROC", later |-> "CMT_PROC_DT",    earlier |-> "CMT_PRESENT_DT"],
       [col |-> "LAW_",     later |-> "LAW_SUBMIT_DT",  earlier |-> "CMT_PROC_DT"],
       [col |-> "LAW_MEET", later |-> "LAW_PRESENT_DT", earlier |-> "LAW_SUBMIT_DT"],
       [col |-> "LAW_PROC", later |-> "LAW_PROC_DT",    earlier |-> "LAW_PRESENT_DT"],
       [col |-> "PROC",     later |-> "PROC_DT",        earlier |-> "LAW_PROC_DT"],
       [col |-> "TOTAL_DT", later |-> "PROC_DT",        earlier |-> "COMMITTEE_DT"] >>

\* the five counted columns, in print order
stage_cols == << "CMT_MEET", "CMT_PROC", "LAW_MEET", "LAW_PROC", "PROC" >>

mean_cols ==
    << "CMT_MEET", "CMT_PROC", "LAW_", "LAW_MEET", "LAW_PROC", "PROC", "TOTAL_DT" >>

\* the errors= argument of pd.to_datetime
errors_raise == "raise"
errors == "coerce"

----------------------------------------------------------------------------
(* Cells and floats *)

Null == [k |-> "null", d |-> 0, h |-> 0]
Bad == [k |-> "bad", d |-> 0, h |-> 0]
NaT == [k |-> "NaT", d |-> 0, h |-> 0]
Str(d, h) == [k |-> "str", d |-> d, h |-> h]
Timestamp(d, h) == [k |-> "ts", d |-> d, h |-> h]

NaN == [k |-> "nan", n |-> 0, d |-> 1]
Inf == [k |-> "inf", n |-> 0, d |-> 1]
Num(n, d) == [k |-> "num", n |-> n, d |-> d]

Range(s) == {s[i] : i \in DOMAIN s}

RECURSIVE Pow10(_)
Pow10(e) == IF e = 0 THEN 1 ELSE 10 * Pow10(e - 1)

RECURSIVE SumSeq(_)
SumSeq(s) == IF s = <<>> THEN 0 ELSE Head(s) + SumSeq(Tail(s))

\* df[c] = values: the column is added, or replaced if the table has it
Assign(df, c, values) ==
    [i \in DOMAIN df |-> (c :> values[i]) @@ df[i]]

----------------------------------------------------------------------------
(* pd.to_datetime(column, errors=...) *)

Unparseable(cell) == cell.k = "bad"

to_datetime_cell_of_strings(cell) ==
    IF cell.k = "str" THEN Timestamp(cell.d, cell.h) ELSE NaT

to_datetime_cell(cell) ==
    CASE cell.k = "str" -> Timestamp(cell.d, cell.h)
      [] cell.k = "ts" -> cell
      [] OTHER -> NaT   \* null, NaT, and under "coerce" an unparseable string

\* the loop over date_cols from column i on: a column holding an unparseable
\* string raises under errors="raise" and leaves the later columns as they were
RECURSIVE ConvertFrom(_, _)
ConvertFrom(df, i) ==
    IF i > Len(date_cols) THEN [df |-> df, err |-> "none"]
    ELSE LET c == date_cols[i]
         IN  IF errors = "raise" /\ \E r \in DOMAIN df : Unparseable(df[r][c])
             THEN [df |-> df, err |-> "ParserError"]
             ELSE ConvertFrom(
                    Assign(df, c, [r \in DOMAIN df |-> to_datetime_cell(df[r][c])]),
                    i + 1)

ConvertDates(df) == ConvertFrom(df, 1)

----------------------------------------------------------------------------
(* bill_details[bill_details["PROC_RESULT"] != "철회"] *)

KeepAll(df) == df
DropWithdrawn(df) == SelectSeq(df, LAMBDA row : row["PROC_RESULT"] # WITHDRAWN)

----------------------------------------------------------------------------
(* (later - earlier).dt.days.fillna(-1).astype(int) *)

Hours(ts) == ts.d * HoursPerDay + ts.h

\* Timestamp - Timestamp: a Timedelta, NaT if either side is NaT
Subtract(later, earlier) ==
    IF later.k = "ts" /\ earlier.k = "ts"
    THEN [nat |-> FALSE, hours |-> Hours(later) - Hours(earlier)]
    ELSE [nat |-> TRUE, hours |-> 0]

\* .dt.days: the Timedelta's days component (floor), NaN for NaT
dt_days(delta) ==
    IF delta.nat THEN [nan |-> TRUE, v |-> 0]
    ELSE [nan |-> FALSE, v |-> delta.hours \div HoursPerDay]

fillna_zero(x) == IF x.nan THEN 0 ELSE x.v
fillna(x) == IF x.nan THEN SENTINEL ELSE x.v

Gap(later, earlier) == fillna(dt_days(Subtract(later, earlier)))

RECURSIVE AddDurationsFrom(_, _)
AddDurationsFrom(df, i) ==
    IF i > Len(duration_cols) THEN df
    ELSE LET g == duration_cols[i]
         IN  AddDurationsFrom(
               Assign(df, g.col,
                      [r \in DOMAIN df |-> Gap(df[r][g.later], df[r][g.earlier])]),
               i + 1)

AddDurations(df) == AddDurationsFrom(df, 1)

----------------------------------------------------------------------------
(* The stage conversion rates *)

\* (df[c] != -1).sum()
Reached(df, c) == SumSeq([i \in DOMAIN df |-> IF df[i][c] # SENTINEL THEN 1 ELSE 0])

TotalBeforeFilter == Len(loaded)
Total == Len(bill_details)

\* numpy integer / int: no exception on a zero divisor
TrueDivide(n, d) ==
    IF d # 0 THEN Num(n, d)
    ELSE IF n = 0 THEN NaN ELSE Inf

\* round(x, digits): the nearest multiple of 10^-digits, a tie to the even one
Round(x, digits) ==
    IF x.k # "num" THEN x
    ELSE LET p == Pow10(digits)
             q == (x.n * p) \div x.d
             r == (x.n * p) % x.d
         IN  Num(IF 2 * r > x.d \/ (2 * r = x.d /\ q % 2 = 1) THEN q + 1 ELSE q, p)

Rate(df, c, total) == Round(TrueDivide(Reached(df, c), total), RateDigits)

----------------------------------------------------------------------------
(* df[mean_cols].replace(-1, pd.NA).mean(skipna=True) *)

replace_none(v) == [na |-> FALSE, v |-> v]
replace(v) == IF v = SENTINEL THEN [na |-> TRUE, v |-> 0] ELSE [na |-> FALSE, v |-> v]

MeanSkipNA(col) ==
    LET kept == SelectSeq(col, LAMBDA x : ~x.na)
    IN  IF kept = <<>> THEN NaN
        ELSE Num(SumSeq([i \in DOMAIN kept |-> kept[i].v]), Len(kept))

Mean(df, c) == MeanSkipNA([i \in DOMAIN df |-> replace(df[i][c])])

----------------------------------------------------------------------------
(* The loaded snapshots that are checked *)

Results == {WITHDRAWN, "부결"}
HourChoices == {0, 18}
Milestones == 1..Len(date_cols)

RawCells == {Null, Bad} \cup {Str(d, h) : d \in 0..MaxDay, h \in HourChoices}

Row(pr, cells) ==
    [PROC_RESULT |-> pr,
     COMMITTEE_DT |-> cells[1], CMT_PRESENT_DT |-> cells[2], CMT_PROC_DT |-> cells[3],
     LAW_SUBMIT_DT |-> cells[4], LAW_PRESENT_DT |-> cells[5], LAW_PROC_DT |-> cells[6],
     PROC_DT |-> cells[7]]

\* a bill that went through its first `reach` milestones, one a day; with
\* `garbled` the last of them is recorded as unparseable text
StagedCells(reach, garbled) ==
    [i \in Milestones |->
        IF i > reach THEN Null
        ELSE IF garbled /\ i = reach THEN Bad
        ELSE Str(i - 1, 0)]

StagedRows ==
    {Row(pr, StagedCells(reach, FALSE)) : pr \in Results, reach \in 0..Len(date_cols)}

GarbledRows ==
    {Row(pr, StagedCells(reach, TRUE)) : pr \in Results, reach \in Milestones}

\* date-only milestones in lifecycle order
OrderedDays ==
    {f \in [Milestones -> 0..MaxDay] :
        \A i \in Milestones : i + 1 \in Milestones => f[i] <= f[i + 1]}

\* an ordered date-only record with any two cells holding anything at all
FreeRow(pr, f, a, va, b, vb) ==
    Row(pr, [[[i \in Milestones |-> Str(f[i], 0)] EXCEPT ![a] = va] EXCEPT ![b] = vb])

Undefined == <<>>

InitStaged ==
    \E n \in 0..MaxBills : loaded \in [1..n -> StagedRows]

\* a garbled record alone, or before or after a clean one
InitGarbled ==
    \E g \in GarbledRows, r \in StagedRows : loaded \in {<<g>>, <<g, r>>, <<r, g>>}

InitFree ==
    \E pr \in Results, f \in OrderedDays, a \in Milestones, b \in Milestones,
       va \in RawCells, vb \in RawCells :
        /\ a <= b
        /\ loaded = <<FreeRow(pr, f, a, va, b, vb)>>

\* the duration cell has nothing loaded
DurationIdle ==
    /\ loaded = <<>> /\ bill_details = <<>>
    /\ conv = Undefined /\ rates = Undefined /\ means = Undefined
    /\ err = "none" /\ pc = "idle"

\* no bills, proposers or members table is loaded
CommitteeUnset == committe_stats = Undefined /\ top_bills = Undefined

PartyUnset ==
    /\ member_ratio = Undefined /\ bp = Undefined /\ ana = Undefined
    /\ raised = "none" /\ bill_props = Undefined
    /\ lead_props = Undefined /\ data = Undefined

TablesIdle ==
    /\ bills = <<>> /\ proposers = <<>> /\ members = <<>>
    /\ CommitteeUnset /\ PartyUnset
    /\ nb = "idle"

HooksIdle == hk = "idle" /\ input = <<>> /\ param = <<>> /\ output = <<>>

null == "null"

\* the states useState is given (Dashboard, useMembers), before any effect
DashboardIdle ==
    /\ activeTab = "overview" /\ selectedMember = null /\ selectedAge = "22"
    /\ um = [members |-> <<>>, loading |-> TRUE, error |-> null]
    /\ calls = <<>>

\* the document as written, before DOMContentLoaded
Document ==
    [currentPolitician |-> null,
     display |-> [list |-> "", dashboard |-> "", loading |-> "none"],
     statusIndicator |-> "",
     error_container |-> "",
     politicianGrid |-> [kind |-> "loading", names |-> <<>>],
     dashboardTitle |-> "",
     refreshBtn |-> [disabled |-> FALSE]]

PageIdle == page = Document /\ tasks = <<>>

FrontIdle == HooksIdle /\ DashboardIdle /\ PageIdle

\* no extracted file is listed
FilesIdle ==
    /\ files = <<>> /\ alter2 = Undefined /\ error = Undefined /\ fpos = 0

Init ==
    /\ TablesIdle /\ FilesIdle /\ FrontIdle
    /\ InitStaged \/ InitGarbled \/ InitFree
    /\ bill_details = loaded
    /\ conv = Undefined
    /\ rates = Undefined
    /\ means = Undefined
    /\ err = "none"
    /\ pc = "loaded"

----------------------------------------------------------------------------
(* The cells *)

\* date conversion, withdrawn filter, the seven duration columns
DurationCell ==
    /\ pc = "loaded"
    /\ LET c == ConvertDates(bill_details)
       IN  IF c.err # "none"
           THEN /\ bill_details' = c.df
                /\ err' = c.err
                /\ pc' = "aborted"
           ELSE /\ bill_details' = AddDurations(DropWithdrawn(c.df))
                /\ err' = err
                /\ pc' = "durations"
    /\ UNCHANGED <<loaded, conv, rates, means, inputVars, tableVars, fileVars, frontVars>>

\* total and the five counts, the five printed rates, the seven means
StageConversion ==
    /\ pc = "durations"
    /\ conv' = [c \in {"total"} \cup Range(stage_cols) |->
                   IF c = "total" THEN Total ELSE Reached(bill_details, c)]
    /\ rates' = [c \in Range(stage_cols) |-> Rate(bill_details, c, Total)]
    /\ means' = [c \in Range(mean_cols) |-> Mean(bill_details, c)]
    /\ pc' = "done"
    /\ UNCHANGED <<loaded, bill_details, err, inputVars, tableVars, fileVars, frontVars>>

Next == DurationCell \/ StageConversion

Spec == Init /\ [][Next]_vars

----------------------------------------------------------------------------
(* Vocabulary of the properties *)

Computed == pc \in {"durations", "done"}
Done == pc = "done"

\* the non-withdrawn records of the snapshot, in snapshot order
Kept == SelectSeq(loaded, LAMBDA row : row["PROC_RESULT"] # WITHDRAWN)

GapSpecs == Range(duration_cols)
StageNames == Range(stage_cols)

Present(cell) == cell.k = "str"
Absent(cell) == cell.k = "null"

IsRate(x) == x.k = "num" /\ x.d = Pow10(RateDigits)

\* x is n/total rounded to three decimals: the nearest thousandth, and on a tie
\* the even one
IsRounded(x, n, total) ==
    /\ IsRate(x)
    /\ LET off == n * x.d - x.n * total
           dist == IF off < 0 THEN -off ELSE off
       IN  /\ 2 * dist <= total
           /\ 2 * dist = total => x.n % 2 = 0

\* IEEE comparison: false when either side is NaN
Geq(x, y) == x.k = "num" /\ y.k = "num" /\ x.n * y.d >= y.n * x.d

AllPresent(row) == \A i \in Milestones : Present(row[date_cols[i]])

PrefixClosed(row) ==
    \A i \in Milestones, j \in Milestones :
        j < i /\ Present(row[date_cols[i]]) => Present(row[date_cols[j]])

RawHours(cell) == cell.d * HoursPerDay + cell.h

InOrder(row) ==
    \A i \in Milestones :
        i + 1 \in Milestones =>
            RawHours(row[date_cols[i]]) <= RawHours(row[date_cols[i + 1]])

\* the sum of the values of a function with a finite domain
RECURSIVE SumFn(_)
SumFn(f) ==
    IF DOMAIN f = {} THEN 0
    ELSE LET i == CHOOSE x \in DOMAIN f : TRUE
         IN  f[i] + SumFn([j \in DOMAIN f \ {i} |-> f[j]])

\* every unparseable cell made a null
Scrub(df) ==
    [i \in DOMAIN df |->
        [c \in DOMAIN df[i] |->
            IF c # "PROC_RESULT" /\ df[i][c].k = "bad" THEN Null ELSE df[i][c]]]

----------------------------------------------------------------------------
(* C1: over the non-withdrawn records, each of the five conversion rates is
   reached/total rounded to three decimals, total being the number of
   non-withdrawn records (the same for the five) and reached the number of
   rows whose gap column is not -1. Stated for a non-empty population; the
   empty one is C4's. *)
C1_RatesAreRoundedShares ==
    Done /\ Kept # <<>> =>
        /\ conv["total"] = Cardinality({i \in DOMAIN loaded :
                                           loaded[i]["PROC_RESULT"] # WITHDRAWN})
        /\ \A c \in StageNames :
              /\ conv[c] = Cardinality({i \in DOMAIN bill_details :
                                           bill_details[i][c] # SENTINEL})
              /\ IsRounded(rates[c], conv[c], conv["total"])

C1_Witness ==
    /\ Done
    /\ Len(loaded) = 3 /\ Len(Kept) = 3
    /\ rates["CMT_MEET"] = Num(667, 1000)
    /\ rates["PROC"] = Num(333, 1000)

(* C2: for every non-withdrawn record and each of the seven duration columns,
   an absent (null) endpoint makes the value the integer -1. *)
C2_AbsentEndpointGivesSentinel ==
    Computed =>
        /\ Len(bill_details) = Len(Kept)
        /\ \A i \in DOMAIN Kept : \A g \in GapSpecs :
              Absent(Kept[i][g.later]) \/ Absent(Kept[i][g.earlier]) =>
                  /\ g.col \in DOMAIN bill_details[i]
                  /\ bill_details[i][g.col] \in Int
                  /\ bill_details[i][g.col] = -1

C2_Witness ==
    /\ Done
    /\ \E i \in DOMAIN Kept :
          /\ Present(Kept[i]["COMMITTEE_DT"])
          /\ Absent(Kept[i]["CMT_PRESENT_DT"])
          /\ Present(Kept[i]["PROC_DT"])
          /\ bill_details[i]["CMT_MEET"] = -1
          /\ bill_details[i]["TOTAL_DT"] # -1

(* C3: a withdrawn record is left out altogether: the table holds no row for
   it, total does not count it, and the table, the counts, the rates and the
   means are those of the snapshot without its withdrawn records. *)
C3_WithdrawnExcluded ==
    Computed =>
        LET t == AddDurations(ConvertDates(Kept).df)
        IN  /\ \A i \in DOMAIN bill_details :
                  bill_details[i]["PROC_RESULT"] # WITHDRAWN
            /\ bill_details = t
            /\ Done =>
                  /\ conv["total"] = Len(Kept)
                  /\ \A c \in StageNames :
                        /\ conv[c] = Reached(t, c)
                        /\ rates[c] = Rate(t, c, Len(t))
                  /\ \A c \in Range(mean_cols) : means[c] = Mean(t, c)

C3_Witness ==
    /\ Done
    /\ Len(loaded) = 2 /\ Len(bill_details) = 1
    /\ \E i \in DOMAIN loaded :
          /\ loaded[i]["PROC_RESULT"] = WITHDRAWN
          /\ AllPresent(loaded[i])
    /\ means["TOTAL_DT"] = NaN

(* C4: with an empty non-withdrawn population the conversion step fails with
   a division-by-zero error and prints no rate. *)
C4_EmptyPopulationFails ==
    Kept = <<>> /\ pc \notin {"loaded", "durations"} =>
        pc = "aborted" /\ err = "ZeroDivisionError"

(* C5: for the records {all seven timestamps present, only COMMITTEE_DT
   present, withdrawn} the committee-referral rate is 1.000 and the
   final-disposition rate 0.500. *)
C5_ReferralCountsCommitteeDate ==
    /\ Done
    /\ Len(loaded) = 3
    /\ \E a \in DOMAIN loaded, b \in DOMAIN loaded, w \in DOMAIN loaded :
          /\ loaded[a]["PROC_RESULT"] # WITHDRAWN /\ AllPresent(loaded[a])
          /\ loaded[b]["PROC_RESULT"] # WITHDRAWN
          /\ Present(loaded[b]["COMMITTEE_DT"])
          /\ \A i \in Milestones : i > 1 => Absent(loaded[b][date_cols[i]])
          /\ loaded[w]["PROC_RESULT"] = WITHDRAWN
    => /\ rates["CMT_MEET"] = Num(1000, 1000)
       /\ rates["PROC"] = Num(500, 1000)

(* C6: when in every record a later timestamp is present only if all earlier
   ones are, the five rates do not increase in milestone order. Stated for a
   non-empty population. *)
C6_RatesNonIncreasing ==
    /\ Done
    /\ Kept # <<>>
    /\ \A i \in DOMAIN loaded : PrefixClosed(loaded[i])
    => \A k \in 1..(Len(stage_cols) - 1) :
          Geq(rates[stage_cols[k]], rates[stage_cols[k + 1]])

C8_SentinelOnlyForAbsent ==
    Computed =>
        \A i \in DOMAIN Kept : \A g \in GapSpecs :
            /\ bill_details[i][g.col] >= 0 \/ bill_details[i][g.col] = -1
            /\ Present(Kept[i][g.later]) /\ Present(Kept[i][g.earlier]) =>
                  bill_details[i][g.col] # -1

(* C9: with both endpoints present a gap is the calendar date of the later
   timestamp minus the calendar date of the earlier one, whatever their times
   of day. *)
C9_GapIsDateDifference ==
    Computed =>
        \A i \in DOMAIN Kept : \A g \in GapSpecs :
            Present(Kept[i][g.later]) /\ Present(Kept[i][g.earlier]) =>
                bill_details[i][g.col] = Kept[i][g.later].d - Kept[i][g.earlier].d

(* C10: an unparseable timestamp string is handled as an absent one: no error
   is raised, every gap it is an endpoint of is -1, and the table is the one
   the snapshot with the string made null gives, so no other gap changes. *)
C10_UnparseableIsAbsent ==
    /\ err = "none" /\ pc # "aborted"
    /\ Computed =>
          /\ bill_details = AddDurations(DropWithdrawn(ConvertDates(Scrub(loaded)).df))
          /\ \A i \in DOMAIN Kept : \A g \in GapSpecs :
                Unparseable(Kept[i][g.later]) \/ Unparseable(Kept[i][g.earlier]) =>
                    bill_details[i][g.col] = -1

C10_Witness ==
    /\ Done
    /\ Len(Kept) = 2
    /\ \E i \in DOMAIN Kept, j \in DOMAIN Kept :
          /\ Unparseable(Kept[i]["CMT_PROC_DT"])
          /\ bill_details[i]["CMT_MEET"] = 1
          /\ bill_details[i]["CMT_PROC"] = -1
          /\ AllPresent(Kept[j])
          /\ bill_details[j]["TOTAL_DT"] = 6

(* C11: each of the seven reported means is the arithmetic mean over exactly
   the rows whose value in that column is not -1: the -1 rows add to neither
   the sum nor the count, and a column with no other value has the mean NaN. *)
C11_MeanSkipsSentinel ==
    Done =>
        \A c \in Range(mean_cols) :
            LET rows == {i \in DOMAIN bill_details : bill_details[i][c] # -1}
            IN  IF rows = {} THEN means[c] = NaN
                ELSE /\ means[c].k = "num"
                     /\ means[c].d = Cardinality(rows)
                     /\ means[c].n = SumFn([i \in rows |-> bill_details[i][c]])

C11_Witness ==
    /\ Done
    /\ Len(bill_details) = 3
    /\ \E i \in DOMAIN bill_details : bill_details[i]["TOTAL_DT"] = -1
    /\ means["TOTAL_DT"] = Num(12, 2)
    /\ means["CMT_MEET"] = Num(3, 3)

----------------------------------------------------------------------------
(* The bills, proposers and members tables *)

MaxRows == 3

\* None (JSON null) in an object column
None == "None"

\* STATUS values: "원안가결", "수정가결", "수정안반영폐기", "대안반영폐기"
PASSED_ORIGINAL == "original-passed"
PASSED_AMENDED == "amended-passed"
DISCARDED_AMENDMENT == "amendment-reflected-discard"
DISCARDED_ALTERNATIVE == "alternative-reflected-discard"
REJECTED == "부결"

Statuses ==
    {PASSED_ORIGINAL, PASSED_AMENDED, DISCARDED_AMENDMENT, DISCARDED_ALTERNATIVE,
     REJECTED}

StatsDigits == 2

pass_statuses_wide ==
    {PASSED_ORIGINAL, PASSED_AMENDED, DISCARDED_AMENDMENT, DISCARDED_ALTERNATIVE}
pass_statuses == {PASSED_ORIGINAL, PASSED_AMENDED}

new_bill_statuses_narrow ==
    {PASSED_ORIGINAL, DISCARDED_AMENDMENT, DISCARDED_ALTERNATIVE}
new_bill_statuses ==
    {PASSED_ORIGINAL, PASSED_AMENDED, DISCARDED_AMENDMENT, DISCARDED_ALTERNATIVE}

\* groupby(key): the group keys; rows whose key is null are in no group
GroupKeysWithNull(df, key) == {df[i][key] : i \in DOMAIN df}
GroupKeys(df, key) == {df[i][key] : i \in DOMAIN df} \ {None}

\* x.index of the group
GroupIndex(df, key, k) == {i \in DOMAIN df : df[i][key] = k}

\* the "count" aggregation: the non-null values
Count(df, idx, col) == Cardinality({i \in idx : df[i][col] # None})

\* df.loc[idx, col].isin(values).sum()
IsinSum(df, idx, col, values) == Cardinality({i \in idx : df[i][col] \in values})

\* sort_values(col, ascending=False) of a set of rows; rows with the same value
\* come in any order
SortedDescending(S, col) ==
    {s \in [1..Cardinality(S) -> S] :
        /\ \A i \in DOMAIN s, j \in DOMAIN s : i # j => s[i] # s[j]
        /\ \A i \in DOMAIN s : i + 1 \in DOMAIN s => s[i][col] >= s[i + 1][col]}

CommitteeRow(k) ==
    LET idx == GroupIndex(bills, "COMMITTEE_NAME", k)
        bill_count == Count(bills, idx, "BILL_ID")
        pass_count == IsinSum(bills, idx, "STATUS", pass_statuses)
        new_bill_count == IsinSum(bills, idx, "STATUS", new_bill_statuses)
    IN  [COMMITTEE_NAME |-> k,
         BILL_COUNT |-> bill_count,
         PASS_COUNT |-> pass_count,
         NEW_BILL_COUNT |-> new_bill_count,
         PASS_RATE |-> Round(TrueDivide(pass_count, bill_count), StatsDigits),
         PROCESSED_RATE |-> Round(TrueDivide(new_bill_count, bill_count), StatsDigits)]

\* committe_stats = bills.groupby("COMMITTEE_NAME").agg(...), the two rates
CommitteStatsCell ==
    /\ nb = "bills"
    /\ committe_stats' \in
          SortedDescending({CommitteeRow(k) : k \in GroupKeys(bills, "COMMITTEE_NAME")},
                           "BILL_COUNT")
    /\ nb' = "committees"
    /\ UNCHANGED <<durVars, inputVars, fileVars, frontVars, top_bills, partyVars>>

TopN == 3

\* df.head(n)
head(s, n) == SubSeq(s, 1, IF Len(s) < n THEN Len(s) ELSE n)

\* bills["COMMITTEE_NAME"].unique(): null is one of the values
unique(df, col) == {df[i][col] : i \in DOMAIN df}

\* bills[bills["COMMITTEE_NAME"] == committee].groupby("BILL_NAME").count()...head(3)
TopBills(committee) ==
    LET idx == GroupIndex(bills, "COMMITTEE_NAME", committee)
        names == {bills[i]["BILL_NAME"] : i \in idx} \ {None}
        rows == {[BILL_NAME |-> name,
                  BILL_COUNT |-> Count(bills,
                                       {i \in idx : bills[i]["BILL_NAME"] = name},
                                       "BILL_ID")] : name \in names}
    IN  {head(s, TopN) : s \in SortedDescending(rows, "BILL_COUNT")}

\* for committee in committees: if committee is None: continue; print(...)
CommitteeBillsCell ==
    /\ nb = "committees"
    /\ LET committees == unique(bills, "COMMITTEE_NAME") \ {None}
       IN  top_bills' \in
              {f \in [committees -> UNION {TopBills(c) : c \in committees}] :
                  \A c \in committees : f[c] \in TopBills(c)}
    /\ nb' = "members"
    /\ UNCHANGED <<durVars, inputVars, fileVars, frontVars, committe_stats, partyVars>>

BillId(i) == "b" \o ToString(i)

CommitteeNames == {"c1", "c2", None}

BillNames == {"n1", "n2"}

InitCommittee ==
    /\ DurationIdle /\ FilesIdle /\ FrontIdle
    /\ \E n \in 0..MaxRows :
          \E f \in [1..n -> [BILL_NAME : BillNames, COMMITTEE_NAME : CommitteeNames,
                              STATUS : Statuses]] :
              \* names are interchangeable: the first bill has the first ones
              /\ n > 0 => f[1].BILL_NAME = "n1" /\ f[1].COMMITTEE_NAME \in {"c1", None}
              /\ bills = [i \in 1..n |->
                             [BILL_ID |-> BillId(i), BILL_NAME |-> f[i].BILL_NAME,
                              COMMITTEE_NAME |-> f[i].COMMITTEE_NAME,
                              STATUS |-> f[i].STATUS]]
    /\ proposers = <<>> /\ members = <<>>
    /\ CommitteeUnset /\ PartyUnset
    /\ nb = "bills"

NextCommittee == CommitteStatsCell \/ CommitteeBillsCell

SpecCommittee == InitCommittee /\ [][NextCommittee]_vars

----------------------------------------------------------------------------
(* Properties of the committee table *)

StatsRows == Range(committe_stats)

BillsOf(k) == {i \in DOMAIN bills : bills[i]["COMMITTEE_NAME"] = k}

\* x is n/total rounded to `digits` decimals
IsRoundedTo(x, n, total, digits) ==
    /\ x.k = "num" /\ x.d = Pow10(digits)
    /\ LET off == n * x.d - x.n * total
           dist == IF off < 0 THEN -off ELSE off
       IN  /\ 2 * dist <= total
           /\ 2 * dist = total => x.n % 2 = 0

(* C12: every committee has one row; its BILL_COUNT is the number of bills of
   the committee, PASS_COUNT the number of those with STATUS 원안가결 or
   수정가결, NEW_BILL_COUNT the number with one of the four resolved statuses,
   and the two rates are those counts over BILL_COUNT rounded to two decimals;
   no count includes a bill of another committee. *)
C12_CommitteeCountsAndRates ==
    nb = "members" =>
        /\ {r["COMMITTEE_NAME"] : r \in StatsRows} =
              {bills[i]["COMMITTEE_NAME"] : i \in DOMAIN bills} \ {None}
        /\ Len(committe_stats) = Cardinality(StatsRows)
        /\ \A r \in StatsRows, q \in StatsRows :
              r["COMMITTEE_NAME"] = q["COMMITTEE_NAME"] => r = q
        /\ \A r \in StatsRows :
              LET G == BillsOf(r["COMMITTEE_NAME"])
              IN  /\ r["BILL_COUNT"] = Cardinality(G)
                  /\ r["PASS_COUNT"] =
                        Cardinality({i \in G : bills[i]["STATUS"] \in
                                        {PASSED_ORIGINAL, PASSED_AMENDED}})
                  /\ r["NEW_BILL_COUNT"] =
                        Cardinality({i \in G : bills[i]["STATUS"] \in
                                        {PASSED_ORIGINAL, PASSED_AMENDED,
                                         DISCARDED_AMENDMENT, DISCARDED_ALTERNATIVE}})
                  /\ IsRoundedTo(r["PASS_RATE"], r["PASS_COUNT"], r["BILL_COUNT"], 2)
                  /\ IsRoundedTo(r["PROCESSED_RATE"], r["NEW_BILL_COUNT"],
                                 r["BILL_COUNT"], 2)

C12_Witness ==
    /\ nb = "members"
    /\ \E r \in StatsRows :
          /\ r["BILL_COUNT"] = 3
          /\ r["PASS_RATE"] = Num(33, 100)
          /\ r["PROCESSED_RATE"] = Num(67, 100)

(* C13: in every committee row PASS_COUNT <= NEW_BILL_COUNT <= BILL_COUNT and,
   after rounding, PASS_RATE <= PROCESSED_RATE. *)
C13_PassRateAtMostFinalizeRate ==
    nb = "members" =>
        \A r \in StatsRows :
            /\ r["PASS_COUNT"] <= r["NEW_BILL_COUNT"]
            /\ r["NEW_BILL_COUNT"] <= r["BILL_COUNT"]
            /\ Geq(r["PROCESSED_RATE"], r["PASS_RATE"])

C13_Witness ==
    /\ nb = "members"
    /\ \E r \in StatsRows :
          /\ 0 < r["PASS_COUNT"]
          /\ r["PASS_COUNT"] < r["NEW_BILL_COUNT"]
          /\ r["NEW_BILL_COUNT"] < r["BILL_COUNT"]
          /\ r["PASS_RATE"] = Num(33, 100)

(* C14: a bill whose COMMITTEE_NAME is null is in no committee group, and the
   BILL_COUNTs of the groups add up to the bills that have a committee: with
   the null-committee bills they make the number of bills. *)
C14_NullCommitteeUngroupedButCounted ==
    nb = "members" =>
        /\ \A r \in StatsRows : r["COMMITTEE_NAME"] # None
        /\ None \notin DOMAIN top_bills
        /\ \A i \in DOMAIN bills :
              bills[i]["COMMITTEE_NAME"] = None =>
                  /\ \A r \in StatsRows : i \notin BillsOf(r["COMMITTEE_NAME"])
                  /\ \A c \in DOMAIN top_bills : bills[i]["COMMITTEE_NAME"] # c
        /\ SumFn([r \in StatsRows |-> r["BILL_COUNT"]])
              + Cardinality({i \in DOMAIN bills : bills[i]["COMMITTEE_NAME"] = None})
           = Len(bills)

C14_Witness ==
    /\ nb = "members"
    /\ Len(bills) = 3
    /\ Cardinality({i \in DOMAIN bills : bills[i]["COMMITTEE_NAME"] = None}) = 1
    /\ Len(committe_stats) = 2
    /\ DOMAIN top_bills = {"c1", "c2"}

----------------------------------------------------------------------------
(* The member, co-sponsorship and party cells *)

\* PROPOSER_TYPE values: "의원대표", "의원공동"
LEAD == "lead"
CO_SPONSOR == "co-sponsor"

RECURSIVE Flatten(_)
Flatten(ss) == IF ss = <<>> THEN <<>> ELSE Head(ss) \o Flatten(Tail(ss))

\* df[[cols]]
Select(df, cols) == [i \in DOMAIN df |-> [c \in cols |-> df[i][c]]]

\* df.drop(columns=cols)
Drop(df, cols) == [i \in DOMAIN df |-> [c \in DOMAIN df[i] \ cols |-> df[i][c]]]

\* the rows of right whose key is the key of the left row, in right's order
Matches(row, right, left_on, right_on) ==
    SelectSeq(right, LAMBDA r : r[right_on] = row[left_on])

\* left.merge(right, ..., how="left"): a row of left without a match is kept,
\* with fill in the columns of right
MergeLeft(left, right, left_on, right_on, fill) ==
    Flatten([i \in DOMAIN left |->
                LET m == Matches(left[i], right, left_on, right_on)
                IN  IF m = <<>> THEN <<left[i] @@ fill>>
                    ELSE [j \in DOMAIN m |-> left[i] @@ m[j]]])

MergeKeepingUnmatched(left, right, left_on, right_on, fill) ==
    MergeLeft(left, right, left_on, right_on, fill)

\* left.merge(right, left_on=, right_on=, how="inner"): the rows of left in
\* order, each once per matching row of right
MergeInner(left, right, left_on, right_on, fill) ==
    Flatten([i \in DOMAIN left |->
                LET m == Matches(left[i], right, left_on, right_on)
                IN  [j \in DOMAIN m |-> left[i] @@ m[j]]])

\* member_ratio = members.groupby("POLY_NM").count()["MONA_CD"]...
MemberRatioRow(k, total) ==
    LET member_count == Count(members, GroupIndex(members, "POLY_NM", k), "MONA_CD")
    IN  [POLY_NM |-> k,
         MEMBER_COUNT |-> member_count,
         MEMBER_RATIO |-> Round(TrueDivide(member_count, total), StatsDigits)]

MemberRatioTables ==
    LET keys == GroupKeys(members, "POLY_NM")
        total == SumFn([k \in keys |->
                           Count(members, GroupIndex(members, "POLY_NM", k), "MONA_CD")])
    IN  SortedDescending({MemberRatioRow(k, total) : k \in keys}, "MEMBER_COUNT")

MemberRatioCell ==
    /\ nb = "members"
    /\ member_ratio' \in MemberRatioTables
    /\ nb' = "cosponsor"
    /\ UNCHANGED <<durVars, inputVars, fileVars, frontVars, committeeVars>>
    /\ UNCHANGED <<bp, ana, raised, bill_props, lead_props, data>>

\* proposers.merge(members[["MONA_CD", "POLY_NM"]], ...).drop(columns=["MONA_CD"])
ProposerParties ==
    Drop(MergeInner(proposers, Select(members, {"MONA_CD", "POLY_NM"}),
                    "PROPOSER_ID", "MONA_CD", [MONA_CD |-> None, POLY_NM |-> None]),
         {"MONA_CD"})

\* dict(x.value_counts()): null is not counted
value_counts(x) ==
    [l \in Range(x) \ {None} |-> Cardinality({i \in DOMAIN x : x[i] = l})]

RECURSIVE join(_, _)
join(sep, x) ==
    IF x = <<>> THEN ""
    ELSE IF Len(x) = 1 THEN x[1]
    ELSE x[1] \o sep \o join(sep, Tail(x))

RECURSIVE Distinct(_)
Distinct(x) ==
    IF x = <<>> THEN <<>>
    ELSE <<Head(x)>> \o Distinct(SelectSeq(Tail(x), LAMBDA v : v # Head(x)))

\* the value the agg dict holds for "PROPOSER_ID": of the two entries with that
\* key the later one
proposer_id_first_rule(x) == join(", ", Distinct(x))
proposer_id_rule(x) == join(", ", x)

\* group keys in sorted order
SortedKeys(keys) == SelectSeq([i \in 1..9 |-> BillId(i)], LAMBDA k : k \in keys)

Column(df, col) == [i \in DOMAIN df |-> df[i][col]]

\* .groupby("BILL_ID").agg({...}).reset_index().rename(...)
CoSponsorRows(joined) ==
    LET keys == SortedKeys(GroupKeys(joined, "BILL_ID"))
    IN  [n \in DOMAIN keys |->
            LET x == SelectSeq(joined, LAMBDA r : r["BILL_ID"] = keys[n])
            IN  [BILL_ID |-> keys[n],
                 PROPOSER_POLY_NM |-> value_counts(Column(x, "POLY_NM")),
                 PROPOSER_IDS |-> proposer_id_rule(Column(x, "PROPOSER_ID"))]]

\* bp = proposers.merge(...).groupby("BILL_ID").agg(...)...
CoSponsorJoin ==
    /\ nb = "cosponsor"
    /\ bp' = CoSponsorRows(ProposerParties)
    /\ nb' = "filter"
    /\ UNCHANGED <<durVars, inputVars, fileVars, frontVars, committeeVars>>
    /\ UNCHANGED <<member_ratio, ana, raised, bill_props, lead_props, data>>

\* bp = bp[bp['PROPOSER_POLY_NM'].apply(lambda x: len(x) > 1)]
\* ana = bills[bills['BILL_ID'].isin(bp['BILL_ID'])]
\* On a table without rows apply gives an empty object Series, which is no
\* boolean mask: bp[...] selects the columns it names, none, and
\* bp['BILL_ID'] raises KeyError.
CoSponsorFilter ==
    /\ nb = "filter"
    /\ IF bp = <<>>
       THEN /\ bp' = <<>>
            /\ raised' = "KeyError"
            /\ UNCHANGED ana
       ELSE /\ bp' = SelectSeq(bp, LAMBDA r : Cardinality(DOMAIN r["PROPOSER_POLY_NM"]) > 1)
            /\ ana' = SelectSeq(bills, LAMBDA b : b["BILL_ID"] \in Range(Column(bp', "BILL_ID")))
            /\ UNCHANGED raised
    /\ nb' = "bill_props"
    /\ UNCHANGED <<durVars, inputVars, fileVars, frontVars, committeeVars>>
    /\ UNCHANGED <<member_ratio, bill_props, lead_props, data>>

\* bill_props = proposers.merge(members[...]).drop(...).merge(bills[[...]], on="BILL_ID")
BillPropsCell ==
    /\ nb = "bill_props"
    /\ bill_props' =
          MergeInner(ProposerParties,
                     Select(bills, {"BILL_ID", "COMMITTEE_NAME", "BILL_NAME"}),
                     "BILL_ID", "BILL_ID",
                     [COMMITTEE_NAME |-> None, BILL_NAME |-> None])
    /\ nb' = "lead_props"
    /\ UNCHANGED <<durVars, inputVars, fileVars, frontVars, committeeVars>>
    /\ UNCHANGED <<member_ratio, bp, ana, raised, lead_props, data>>

\* lead_props = bill_props[bill_props["PROPOSER_TYPE"] == "의원대표"]
LeadPropsCell ==
    /\ nb = "lead_props"
    /\ lead_props' = SelectSeq(bill_props, LAMBDA r : r["PROPOSER_TYPE"] = LEAD)
    /\ nb' = "party"
    /\ UNCHANGED <<durVars, inputVars, fileVars, frontVars, committeeVars>>
    /\ UNCHANGED <<member_ratio, bp, ana, raised, bill_props, data>>

\* an integer column after the merge: a float column when a row has no match
AsFloat(df, col) == [i \in DOMAIN df |-> (col :> Num(df[i][col], 1)) @@ df[i]]

how_inner(left, right, left_on, right_on, fill) ==
    MergeInner(left, right, left_on, right_on, fill)
\* a left join in which no key of the right table equals a key of the left
how_never_matching(left, right, left_on, right_on, fill) ==
    MergeLeft(left, SelectSeq(right, LAMBDA r : FALSE), left_on, right_on, fill)
how(left, right, left_on, right_on, fill) ==
    MergeLeft(left, right, left_on, right_on, fill)

\* data["BILL_COUNT"] / data["MEMBER_COUNT"]
ratio_floor(bill_count, member_count) ==
    IF member_count.k # "num" THEN NaN
    ELSE IF member_count.n = 0 THEN TrueDivide(bill_count, 0)
    ELSE Num(bill_count \div member_count.n, 1)
ratio(bill_count, member_count) ==
    IF member_count.k # "num" THEN NaN
    ELSE TrueDivide(bill_count, member_count.n)

PartyRow(k) ==
    [POLY_NM |-> k,
     BILL_COUNT |-> Count(lead_props, GroupIndex(lead_props, "POLY_NM", k), "BILL_ID")]

\* data = lead_props.groupby(["POLY_NM"]).count()["BILL_ID"]...; the merge; RATIO
PartyCell ==
    /\ nb = "party"
    /\ \E counted \in SortedDescending({PartyRow(k) : k \in GroupKeys(lead_props, "POLY_NM")},
                                       "BILL_COUNT") :
          LET merged == how(counted,
                            AsFloat(Select(member_ratio, {"POLY_NM", "MEMBER_COUNT"}),
                                    "MEMBER_COUNT"),
                            "POLY_NM", "POLY_NM", [MEMBER_COUNT |-> NaN])
          IN  data' = Assign(merged, "RATIO",
                             [i \in DOMAIN merged |->
                                 ratio(merged[i]["BILL_COUNT"], merged[i]["MEMBER_COUNT"])])
    /\ nb' = "end"
    /\ UNCHANGED <<durVars, inputVars, fileVars, frontVars, committeeVars>>
    /\ UNCHANGED <<member_ratio, bp, ana, raised, bill_props, lead_props>>

Parties == {"p1", "p2"}

MemberIds == {"m1", "m2", "m3"}

MemberRow(id, party) == [MONA_CD |-> id, POLY_NM |-> party]

\* members: nobody, one party, two parties, a member without a party; "m3" is
\* never a member
MemberTables ==
    {<<>>,
     <<MemberRow("m1", "p1")>>,
     <<MemberRow("m1", "p1"), MemberRow("m2", "p1")>>,
     <<MemberRow("m1", "p1"), MemberRow("m2", "p2")>>,
     <<MemberRow("m1", "p1"), MemberRow("m2", None)>>}

BillRow(i) ==
    [BILL_ID |-> BillId(i), BILL_NAME |-> "n1", COMMITTEE_NAME |-> "c1",
     STATUS |-> REJECTED]

\* one or two bills; proposer rows may name "b2" when bills does not have it
InitSmallParty ==
    /\ \E n \in 1..2 : bills = [i \in 1..n |-> BillRow(i)]
    /\ members \in MemberTables
    /\ \E n \in 0..MaxRows :
          proposers \in [1..n -> [BILL_ID : {BillId(1), BillId(2)},
                                  PROPOSER_ID : MemberIds,
                                  PROPOSER_TYPE : {LEAD, CO_SPONSOR}]]

\* a party of ten members that leads seven bills, a party of one that leads none
InitTenSeven ==
    /\ bills = [i \in 1..7 |-> BillRow(i)]
    /\ members = [i \in 1..10 |-> MemberRow("m" \o ToString(i), "p1")]
                    \o <<MemberRow("m11", "p2")>>
    /\ proposers = [i \in 1..7 |->
                       [BILL_ID |-> BillId(i), PROPOSER_ID |-> "m" \o ToString(i),
                        PROPOSER_TYPE |-> LEAD]]
                      \o <<[BILL_ID |-> BillId(1), PROPOSER_ID |-> "m11",
                            PROPOSER_TYPE |-> CO_SPONSOR]>>

InitParty ==
    /\ DurationIdle /\ FilesIdle /\ FrontIdle
    /\ InitSmallParty \/ InitTenSeven
    /\ CommitteeUnset /\ PartyUnset
    /\ nb = "members"

NextParty ==
    \/ MemberRatioCell
    \/ CoSponsorJoin
    \/ CoSponsorFilter
    \/ BillPropsCell
    \/ LeadPropsCell
    \/ PartyCell

SpecParty == InitParty /\ [][NextParty]_vars

\* the party cell on any lead_props, beside a member_ratio made from members
InitJoin ==
    /\ DurationIdle /\ FilesIdle /\ FrontIdle
    /\ bills = <<>> /\ proposers = <<>>
    /\ members \in MemberTables
    /\ CommitteeUnset
    /\ member_ratio \in MemberRatioTables
    /\ bp = Undefined /\ ana = Undefined /\ raised = "none" /\ bill_props = Undefined
    /\ \E n \in 0..MaxRows :
          \E f \in [1..n -> [BILL_ID : {BillId(1), BillId(2)},
                              POLY_NM : Parties \cup {"p3"}]] :
              lead_props = [i \in 1..n |->
                               [BILL_ID |-> f[i].BILL_ID, PROPOSER_ID |-> "m1",
                                PROPOSER_TYPE |-> LEAD, POLY_NM |-> f[i].POLY_NM,
                                COMMITTEE_NAME |-> "c1", BILL_NAME |-> "n1"]]
    /\ data = Undefined
    /\ nb = "party"

NextJoin == PartyCell

SpecJoin == InitJoin /\ [][NextJoin]_vars

----------------------------------------------------------------------------
(* Properties of the party and co-sponsorship tables *)

\* the proposer rows whose PROPOSER_ID is the MONA_CD of a member
Matched == {i \in DOMAIN proposers :
               \E j \in DOMAIN members : members[j]["MONA_CD"] = proposers[i]["PROPOSER_ID"]}

\* the party labels among the matched proposers of bill b
LabelsOf(b) ==
    {members[j]["POLY_NM"] :
        j \in {j \in DOMAIN members :
                  \E i \in DOMAIN proposers :
                      /\ proposers[i]["BILL_ID"] = b
                      /\ proposers[i]["PROPOSER_ID"] = members[j]["MONA_CD"]}} \ {None}

\* the lead rows of party k: a lead proposer row, its member, its bill
LeadsOf(k) ==
    {t \in (DOMAIN proposers) \X (DOMAIN members) \X (DOMAIN bills) :
        /\ proposers[t[1]]["PROPOSER_TYPE"] = LEAD
        /\ proposers[t[1]]["PROPOSER_ID"] = members[t[2]]["MONA_CD"]
        /\ members[t[2]]["POLY_NM"] = k
        /\ proposers[t[1]]["BILL_ID"] = bills[t[3]]["BILL_ID"]}

\* the PROPOSER_IDs of the matched proposer rows of bill b, in table order
MatchedIdsOf(b) ==
    Column(SelectSeq(proposers,
                     LAMBDA p : /\ p["BILL_ID"] = b
                                /\ \E j \in DOMAIN members :
                                      members[j]["MONA_CD"] = p["PROPOSER_ID"]),
           "PROPOSER_ID")

HeadCount(k) == Cardinality({j \in DOMAIN members : members[j]["POLY_NM"] = k})

(* C15: data has one row for every party with a lead row; its BILL_COUNT is the
   number of lead rows of the party and its RATIO is exactly BILL_COUNT over the
   number of members with that party label. *)
C15_RatioIsBillsPerMember ==
    nb = "end" =>
        /\ {r["POLY_NM"] : r \in Range(data)} =
              {k \in Range(Column(members, "POLY_NM")) \ {None} : LeadsOf(k) # {}}
        /\ \A r \in Range(data) :
              /\ r["BILL_COUNT"] = Cardinality(LeadsOf(r["POLY_NM"]))
              /\ HeadCount(r["POLY_NM"]) > 0
              /\ r["RATIO"].k = "num"
              /\ r["RATIO"].n * HeadCount(r["POLY_NM"]) = r["BILL_COUNT"] * r["RATIO"].d

C15_Witness ==
    /\ nb = "end"
    /\ \E r \in Range(data) :
          /\ HeadCount(r["POLY_NM"]) = 10
          /\ r["BILL_COUNT"] = 7
          /\ r["RATIO"] = Num(7, 10)

(* C16: every party of lead_props has its row in data, and the row of a party
   that member_ratio does not have holds NaN as MEMBER_COUNT and as RATIO. *)
C16_UnmatchedPartyKeptWithNaN ==
    nb = "end" =>
        \A k \in Range(Column(lead_props, "POLY_NM")) :
            /\ Cardinality({i \in DOMAIN data : data[i]["POLY_NM"] = k}) = 1
            /\ k \notin Range(Column(member_ratio, "POLY_NM")) =>
                  \A r \in Range(data) :
                      r["POLY_NM"] = k =>
                          /\ r["MEMBER_COUNT"] = NaN
                          /\ r["RATIO"] = NaN
                          /\ r["BILL_COUNT"] =
                                Cardinality({i \in DOMAIN lead_props :
                                                lead_props[i]["POLY_NM"] = k})

C16_Witness ==
    /\ nb = "end"
    /\ "p3" \notin Range(Column(member_ratio, "POLY_NM"))
    /\ \E r \in Range(data), q \in Range(data) :
          /\ r["POLY_NM"] = "p3" /\ r["RATIO"] = NaN /\ r["BILL_COUNT"] = 2
          /\ q["POLY_NM"] = "p1" /\ q["RATIO"] = Num(1, 2)

Filtered == nb \in {"bill_props", "lead_props", "party", "end"}

(* C17: once the co-sponsorship cell has run, ana is exactly the rows of bills
   whose BILL_ID has more than one distinct party label among its matched
   proposers, and the cell has raised nothing. *)
C17_CrossPartyBillsExactly ==
    Filtered =>
        /\ raised = "none"
        /\ ana = SelectSeq(bills, LAMBDA b : Cardinality(LabelsOf(b["BILL_ID"])) > 1)

(* C18: the join raises nothing; a proposer row that matches no member gives
   its bill no party label and no identifier, there is no label that is not a
   member's, and a bill without a matched proposer is in neither joined
   table. *)
C18_UnmatchedProposerDropped ==
    /\ nb = "filter" =>
          /\ raised = "none"
          /\ {r["BILL_ID"] : r \in Range(bp)} =
                {proposers[i]["BILL_ID"] : i \in Matched}
          /\ \A r \in Range(bp) :
                /\ DOMAIN r["PROPOSER_POLY_NM"] \subseteq Range(Column(members, "POLY_NM"))
                /\ DOMAIN r["PROPOSER_POLY_NM"] = LabelsOf(r["BILL_ID"])
                /\ SumFn(r["PROPOSER_POLY_NM"]) <=
                      Cardinality({i \in Matched : proposers[i]["BILL_ID"] = r["BILL_ID"]})
                /\ r["PROPOSER_IDS"] = join(", ", MatchedIdsOf(r["BILL_ID"]))
    /\ nb \in {"lead_props", "party", "end"} =>
          /\ Len(bill_props) =
                Cardinality({t \in Matched \X (DOMAIN bills) :
                                proposers[t[1]]["BILL_ID"] = bills[t[2]]["BILL_ID"]})
          /\ \A r \in Range(bill_props) :
                /\ r["PROPOSER_ID"] \in Range(Column(members, "MONA_CD"))
                /\ r["POLY_NM"] \in Range(Column(members, "POLY_NM"))
                /\ \E i \in Matched :
                      /\ proposers[i]["BILL_ID"] = r["BILL_ID"]
                      /\ proposers[i]["PROPOSER_ID"] = r["PROPOSER_ID"]

C18_Witness ==
    /\ nb = "lead_props"
    /\ Len(bills) = 2
    /\ \E i \in DOMAIN proposers \ Matched : proposers[i]["BILL_ID"] = BillId(2)
    /\ \A i \in Matched : proposers[i]["BILL_ID"] = BillId(1)
    /\ Len(bill_props) = 2
    /\ \A r \in Range(bill_props) : r["BILL_ID"] = BillId(1)

(* C19: before the filter, PROPOSER_IDS of a bill is the ", "-joined
   identifiers of its matched proposer rows in table order, one per row, and
   PROPOSER_POLY_NM counts the matched rows of each party label. *)
C19_ProposerIdsJoinedInOrder ==
    nb = "filter" =>
        \A r \in Range(bp) :
            /\ r["PROPOSER_IDS"] = join(", ", MatchedIdsOf(r["BILL_ID"]))
            /\ r["PROPOSER_POLY_NM"] =
                  [l \in LabelsOf(r["BILL_ID"]) |->
                      Cardinality({i \in Matched :
                          /\ proposers[i]["BILL_ID"] = r["BILL_ID"]
                          /\ \E j \in DOMAIN members :
                                /\ members[j]["MONA_CD"] = proposers[i]["PROPOSER_ID"]
                                /\ members[j]["POLY_NM"] = l})]

C19_Witness ==
    /\ nb = "filter"
    /\ \E r \in Range(bp) :
          /\ r["PROPOSER_IDS"] = "m2, m1, m2"
          /\ r["PROPOSER_POLY_NM"] = [l \in {"p1", "p2"} |-> IF l = "p1" THEN 1 ELSE 2]

----------------------------------------------------------------------------
(* The validation loop over the extracted files; a string is the sequence of
   its characters, the marker "(대안)" one element *)

MaxFiles == 2

ALT_MARK == "(alt)"

JSON == ".json"

\* s.split("_")[0]: what comes before the first "_", all of s without one
RECURSIVE split_first(_)
split_first(s) ==
    IF s = <<>> \/ Head(s) = "_" THEN <<>>
    ELSE <<Head(s)>> \o split_first(Tail(s))

endswith(s, suffix) ==
    /\ Len(suffix) <= Len(s)
    /\ SubSeq(s, Len(s) - Len(suffix) + 1, Len(s)) = suffix

\* sub in s, for a sub of one element
contains(s, sub) == \E i \in DOMAIN s : s[i] = sub

ValueError(msg, fname) == [type |-> "ValueError", msg |-> msg, fname |-> fname]
JSONDecodeError(fname) == [type |-> "JSONDecodeError", msg |-> "", fname |-> fname]
NoException == [type |-> "none", msg |-> "", fname |-> <<>>]

RaisesNoMismatch(file) ==
    IF file.corrupt THEN JSONDecodeError(file.fname)
    ELSE IF file.bill_number = <<>> \/ file.title = <<>>
        THEN ValueError("Missing required fields", file.fname)
    ELSE IF ~file.is_alternative /\ contains(file.title, ALT_MARK)
        THEN ValueError("Title contains the marker but is not marked as alternative",
                        file.fname)
    ELSE NoException

\* the body of the try for one file: the exception it raises, if any
Raises(file) ==
    LET bill_num == split_first(file.title)
    IN  IF file.corrupt THEN JSONDecodeError(file.fname)
        ELSE IF file.bill_number = <<>> \/ file.title = <<>>
            THEN ValueError("Missing required fields", file.fname)
        ELSE IF ~endswith(bill_num, file.bill_number)
            THEN ValueError("Bill number mismatch", file.fname)
        ELSE IF ~file.is_alternative /\ contains(file.title, ALT_MARK)
            THEN ValueError("Title contains the marker but is not marked as alternative",
                            file.fname)
        ELSE NoException

\* one turn of: for fname in os.listdir(extracted_dir)
ValidateFile ==
    /\ fpos < Len(files)
    /\ LET file == files[fpos + 1]
           e == Raises(file)
       IN  IF file.fname[2] # JSON
           THEN UNCHANGED <<alter2, error>>
           ELSE IF e # NoException
               THEN /\ error' = Append(error, e)
                    /\ UNCHANGED alter2
           ELSE IF file.is_alternative
               THEN /\ alter2' = (split_first(file.title) :> file.alternative_bill_numbers)
                                    @@ alter2
                    /\ UNCHANGED error
           ELSE UNCHANGED <<alter2, error>>
    /\ fpos' = fpos + 1
    /\ UNCHANGED <<files, durVars, inputVars, tableVars, frontVars>>

Titles ==
    {<<>>,
     <<"1">>,
     <<"2", "1", "_", "x">>,
     <<"1", "_", "2">>,
     <<"1", "_", ALT_MARK>>,
     <<ALT_MARK, "1", "_", "x">>}

BillNumbers == {<<>>, <<"1">>, <<"2">>}

\* a listed entry: a file that is no .json, a .json that does not parse, or a
\* record
FileChoices ==
    LET blank == [fname |-> <<"f", JSON>>, corrupt |-> FALSE, title |-> <<>>,
                  bill_number |-> <<>>, is_alternative |-> FALSE,
                  alternative_bill_numbers |-> <<>>]
    IN  {[blank EXCEPT !.fname = <<"f", ".txt">>], [blank EXCEPT !.corrupt = TRUE]}
        \cup {[blank EXCEPT !.title = t, !.bill_number = n, !.is_alternative = a] :
                 t \in Titles, n \in BillNumbers, a \in BOOLEAN}

\* the i-th file has its own name and its own alternative numbers
Listed(file, i) ==
    [file EXCEPT !.fname[1] = "f" \o ToString(i),
                 !.alternative_bill_numbers = <<"f" \o ToString(i)>>]

InitValidate ==
    /\ DurationIdle /\ TablesIdle /\ FrontIdle
    /\ \E n \in 0..MaxFiles :
          \E f \in [1..n -> FileChoices] :
              files = [i \in 1..n |-> Listed(f[i], i)]
    /\ alter2 = <<>>
    /\ error = <<>>
    /\ fpos = 0

NextValidate == ValidateFile

SpecValidate == InitValidate /\ [][NextValidate]_vars

----------------------------------------------------------------------------
(* Properties of the validation loop *)

IsRecord(file) == file.fname[2] = JSON /\ ~file.corrupt

\* the record has an empty bill_number or title, a prefix that does not end
\* with its bill_number, or the marker in the title without the flag
Failing(file) ==
    /\ IsRecord(file)
    /\ \/ file.bill_number = <<>>
       \/ file.title = <<>>
       \/ ~endswith(split_first(file.title), file.bill_number)
       \/ contains(file.title, ALT_MARK) /\ ~file.is_alternative

Unreadable(file) == file.fname[2] = JSON /\ file.corrupt

\* the records that pass and carry the flag
Entering == {i \in DOMAIN files : IsRecord(files[i]) /\ ~Failing(files[i])
                                     /\ files[i].is_alternative}

(* C20: when the loop is over, the error list has one entry for each failing
   record and each unreadable file, in listing order, and alter2 is what the
   passing flagged records alone give: for each of their prefixes the
   alternative numbers of the last of them, whatever stands between them. *)
C20_FailingRecordsReportedOnce ==
    fpos = Len(files) =>
        /\ Column(error, "fname") =
              Column(SelectSeq(files, LAMBDA f : Failing(f) \/ Unreadable(f)), "fname")
        /\ DOMAIN alter2 = {split_first(files[i].title) : i \in Entering}
        /\ \A i \in Entering :
              (\A j \in Entering :
                  j > i => split_first(files[j].title) # split_first(files[i].title))
                  => alter2[split_first(files[i].title)] = files[i].alternative_bill_numbers

C20_Witness ==
    /\ fpos = Len(files) /\ Len(files) = 2
    /\ Failing(files[1]) /\ files[1].is_alternative
    /\ ~endswith(split_first(files[1].title), files[1].bill_number)
    /\ split_first(files[1].title) = <<"1">>
    /\ Entering = {2}
    /\ Len(error) = 1
    /\ alter2 = (<<"2", "1">> :> <<"f2">>)

----------------------------------------------------------------------------
(* Running the duration and conversion cell again, on the bill_details it has
   left behind, and the table cells beside it *)

\* the first half of the cell, run when the cell has been run before
DurationCellAgain ==
    /\ pc = "done"
    /\ LET c == ConvertDates(bill_details)
       IN  IF c.err # "none"
           THEN /\ bill_details' = c.df
                /\ err' = c.err
                /\ pc' = "aborted"
           ELSE /\ bill_details' = AddDurations(DropWithdrawn(c.df))
                /\ err' = err
                /\ pc' = "durations again"
    /\ UNCHANGED <<loaded, conv, rates, means, inputVars, tableVars, fileVars, frontVars>>

\* the second half of the cell in that run
StageConversionAgain ==
    /\ pc = "durations again"
    /\ conv' = [c \in {"total"} \cup Range(stage_cols) |->
                   IF c = "total" THEN Total ELSE Reached(bill_details, c)]
    /\ rates' = [c \in Range(stage_cols) |-> Rate(bill_details, c, Total)]
    /\ means' = [c \in Range(mean_cols) |-> Mean(bill_details, c)]
    /\ pc' = "done again"
    /\ UNCHANGED <<loaded, bill_details, err, inputVars, tableVars, fileVars, frontVars>>

ProposerRow(bill, id, type) ==
    [BILL_ID |-> BillId(bill), PROPOSER_ID |-> id, PROPOSER_TYPE |-> type]

\* the three tables as the notebook loads them, before its first table cell
InitNotebook ==
    /\ DurationIdle /\ FilesIdle /\ FrontIdle
    /\ \/ InitTenSeven
       \/ /\ bills = <<BillRow(1), [BillRow(2) EXCEPT !.COMMITTEE_NAME = None,
                                                     !.STATUS = PASSED_AMENDED]>>
          /\ members \in MemberTables
          /\ proposers \in
                {<<>>,
                 <<ProposerRow(1, "m1", LEAD), ProposerRow(1, "m2", CO_SPONSOR),
                   ProposerRow(2, "m3", LEAD)>>}
    /\ CommitteeUnset /\ PartyUnset
    /\ nb = "bills"

InitRerun == Init \/ InitNotebook

NextRerun ==
    \/ DurationCell
    \/ StageConversion
    \/ DurationCellAgain
    \/ StageConversionAgain
    \/ CommitteStatsCell
    \/ CommitteeBillsCell
    \/ MemberRatioCell
    \/ CoSponsorJoin
    \/ CoSponsorFilter
    \/ BillPropsCell
    \/ LeadPropsCell
    \/ PartyCell

SpecRerun == InitRerun /\ [][NextRerun]_vars

(* C21: the second run of the duration and conversion cell leaves bill_details,
   with its gaps, as the first run left it and computes the same counts, rates
   and means; no cell changes bills, proposers or members. *)
C21_SecondRunSameOutput ==
    [][/\ pc = "done" => bill_details' = bill_details
       /\ pc = "durations again" =>
             /\ conv' = conv
             /\ rates' = rates
             /\ means' = means
       /\ <<bills, proposers, members>>' = <<bills, proposers, members>>]_vars

C21_Witness ==
    /\ pc = "done again"
    /\ Len(loaded) = 3 /\ Len(bill_details) = 2
    /\ \E i \in DOMAIN loaded : \E c \in Range(date_cols) : loaded[i][c].k = "str"
    /\ \E i \in DOMAIN bill_details : bill_details[i]["CMT_MEET"] = 1
    /\ \E i \in DOMAIN bill_details : bill_details[i]["CMT_MEET"] = -1
    /\ rates["CMT_MEET"] = Num(500, 1000)

----------------------------------------------------------------------------
(* The frontend helpers and hooks. A string is the sequence of its characters;
   the label '무소속' is one element, and so is a missing value. *)

MaxLen == 3

INDEPENDENT == <<"independent">>

undefined == <<"undefined">>

Chars == {"a", "b", "/", " "}

\* !x for an optional string
Falsy(x) == x = undefined \/ x = <<>>

\* x || y
Or(x, y) == IF Falsy(x) THEN y ELSE x

\* s.split(sep)
RECURSIVE split(_, _)
split(s, sep) ==
    IF \A i \in DOMAIN s : s[i] # sep THEN <<s>>
    ELSE LET i == CHOOSE i \in DOMAIN s : s[i] = sep /\ \A j \in 1..(i - 1) : s[j] # sep
         IN  <<SubSeq(s, 1, i - 1)>> \o split(SubSeq(s, i + 1, Len(s)), sep)

\* a.pop() and a.shift(), the value
shift(a) == a[1]
pop(a) == a[Len(a)]

getFirstPartyName(fullPartyName) ==
    IF Falsy(fullPartyName) THEN INDEPENDENT
    ELSE Or(shift(split(fullPartyName, "/")), INDEPENDENT)

getShortPartyName(fullPartyName) ==
    IF Falsy(fullPartyName) THEN INDEPENDENT
    ELSE Or(pop(split(fullPartyName, "/")), INDEPENDENT)

\* usePartyStats: partyFull, party
PartyKey(PLPT_NM) ==
    LET partyFull == Or(PLPT_NM, INDEPENDENT)
    IN  Or(pop(split(partyFull, "/")), INDEPENDENT)

Strings == UNION {[1..n -> Chars] : n \in 0..MaxLen}

InitShortPartyName ==
    /\ hk = "getShortPartyName"
    /\ input \in Strings \cup {undefined}
    /\ param = <<>>
    /\ output = <<>>

CallGetShortPartyName ==
    /\ hk = "getShortPartyName"
    /\ output' = getShortPartyName(input)
    /\ hk' = "getShortPartyName returned"
    /\ UNCHANGED <<input, param, backVars, dashVars, fetchVars, staticVars>>

MaxList == 3

\* the affiliations of the listed members
Affiliations ==
    {undefined, <<"a">>, <<"b">>, <<"a", "b">>, <<"a", "/", "b">>, <<"b", "/">>}

LeadCounts == {0, 1, 2}

\* a member of the response, the fields the hooks read
\* the names are distinct and are not listed in their collation order
NameOf(letter, i) == <<letter, ToString(MaxList + 1 - i)>>

MemberOf(i, plpt, lead) ==
    [NAAS_NM |-> NameOf("m", i), PLPT_NM |-> plpt,
     CMIT_NM |-> IF i % 2 = 1 THEN <<"c">> ELSE <<"c", "/", "d">>,
     total_count |-> lead + 1, total_pass_rate |-> 50,
     lead_count |-> lead, lead_pass_rate |-> 50]

MemberLists(list, affiliations, leads) ==
    \E n \in 0..MaxList :
        \E f \in [1..n -> affiliations \X leads] :
            list = [i \in 1..n |-> MemberOf(i, f[i][1], f[i][2])]

\* a.sort((x, y) => x[field] - y[field]) and (x, y) => y[field] - x[field]:
\* the sort is stable
RECURSIVE SortAscStable(_, _)
SortAscStable(a, field) ==
    IF a = <<>> THEN <<>>
    ELSE LET i == CHOOSE i \in DOMAIN a :
                     /\ \A j \in DOMAIN a : a[j][field] >= a[i][field]
                     /\ \A j \in 1..(i - 1) : a[j][field] # a[i][field]
         IN  <<a[i]>> \o SortAscStable(SubSeq(a, 1, i - 1) \o SubSeq(a, i + 1, Len(a)), field)

RECURSIVE SortDescStable(_, _)
SortDescStable(a, field) ==
    IF a = <<>> THEN <<>>
    ELSE LET i == CHOOSE i \in DOMAIN a :
                     /\ \A j \in DOMAIN a : a[j][field] <= a[i][field]
                     /\ \A j \in 1..(i - 1) : a[j][field] # a[i][field]
         IN  <<a[i]>> \o SortDescStable(SubSeq(a, 1, i - 1) \o SubSeq(a, i + 1, Len(a)), field)

\* a.slice(0, n)
slice(a, n) == SubSeq(a, 1, IF Len(a) < n THEN Len(a) ELSE n)

\* Math.round(x * 10) / 10 for x = n / d >= 0: a half goes up
RoundTenth(n, d) == Num((20 * n + d) \div (2 * d), 10)

\* the keys of partyMap in the order of their first set()
RECURSIVE MapKeys(_)
MapKeys(members_) ==
    IF members_ = <<>> THEN <<>>
    ELSE LET rest == MapKeys(SubSeq(members_, 1, Len(members_) - 1))
             party == PartyKey(members_[Len(members_)]["PLPT_NM"])
         IN  IF party \in Range(rest) THEN rest ELSE Append(rest, party)

TopMembers == 2

usePartyStats(members_) ==
    LET keys == MapKeys(members_)
    IN  [n \in DOMAIN keys |->
            LET pushed == SelectSeq(members_, LAMBDA m : PartyKey(m["PLPT_NM"]) = keys[n])
                count == Len(pushed)
                totalLeadBills == SumSeq(Column(pushed, "lead_count"))
            IN  [name |-> keys[n],
                 count |-> count,
                 totalLeadBills |-> totalLeadBills,
                 avgLeadBillCount |-> RoundTenth(totalLeadBills, count),
                 avgLeadPassRate |->
                     RoundTenth(SumSeq(Column(pushed, "lead_pass_rate")), count),
                 topMembers |-> slice(SortDescStable(pushed, "lead_count"), TopMembers)]]

InitPartyStats ==
    /\ hk = "usePartyStats"
    /\ MemberLists(input, Affiliations, LeadCounts)
    /\ param = <<>>
    /\ output = <<>>

CallUsePartyStats ==
    /\ hk = "usePartyStats"
    /\ output' = usePartyStats(input)
    /\ hk' = "usePartyStats returned"
    /\ UNCHANGED <<input, param, backVars, dashVars, fetchVars, staticVars>>

\* the characters in their collation order
Alphabet == <<" ", "/", "0", "1", "2", "3", "4", "5", "6", "a", "b", "c", "d", "m", "n">>

Code(c) == CHOOSE i \in DOMAIN Alphabet : Alphabet[i] = c

\* x.localeCompare(y): negative, zero or positive
RECURSIVE localeCompare(_, _)
localeCompare(x, y) ==
    IF x = <<>> /\ y = <<>> THEN 0
    ELSE IF x = <<>> THEN -1
    ELSE IF y = <<>> THEN 1
    ELSE IF Code(Head(x)) < Code(Head(y)) THEN -1
    ELSE IF Code(Head(x)) > Code(Head(y)) THEN 1
    ELSE localeCompare(Tail(x), Tail(y))

\* s.includes(sub)
includes(s, sub) ==
    \E i \in 1..(Len(s) + 1) :
        /\ i + Len(sub) - 1 <= Len(s)
        /\ SubSeq(s, i, i + Len(sub) - 1) = sub

\* x?.includes(sub) as a filter condition: undefined is falsy
includesOpt(x, sub) == x # undefined /\ includes(x, sub)

\* s.trim()
RECURSIVE trim(_)
trim(s) ==
    IF s = <<>> THEN s
    ELSE IF Head(s) = " " THEN trim(Tail(s))
    ELSE IF s[Len(s)] = " " THEN trim(SubSeq(s, 1, Len(s) - 1))
    ELSE s

\* the comparator of useFilteredMembers
compareMembers(a, b, sortBy) ==
    CASE sortBy = "name" -> localeCompare(a["NAAS_NM"], b["NAAS_NM"])
      [] sortBy = "total_count" -> b["total_count"] - a["total_count"]
      [] sortBy = "total_pass_rate" -> b["total_pass_rate"] - a["total_pass_rate"]
      [] sortBy = "lead_count" -> b["lead_count"] - a["lead_count"]
      [] sortBy = "party" ->
            localeCompare(Or(a["PLPT_NM"], <<>>), Or(b["PLPT_NM"], <<>>))
      [] OTHER -> 0

\* the comparator of useFilteredBills
compareBills(a, b, sortBy) ==
    CASE sortBy = "bill_name" -> localeCompare(a["bill_name"], b["bill_name"])
      [] sortBy = "bill_count" -> b["bill_count"] - a["bill_count"]
      [] sortBy = "bill_pass_rate" -> b["bill_pass_rate"] - a["bill_pass_rate"]
      [] sortBy = "bill_committee" ->
            localeCompare(a["bill_committee"], b["bill_committee"])
      [] OTHER -> 0

\* filtered.sort(comparator): the first of the least elements, then the rest
RECURSIVE sortMembers(_, _)
sortMembers(a, sortBy) ==
    IF a = <<>> THEN <<>>
    ELSE LET i == CHOOSE i \in DOMAIN a :
                     /\ \A j \in DOMAIN a : compareMembers(a[j], a[i], sortBy) >= 0
                     /\ \A j \in 1..(i - 1) : compareMembers(a[j], a[i], sortBy) # 0
         IN  <<a[i]>> \o sortMembers(SubSeq(a, 1, i - 1) \o SubSeq(a, i + 1, Len(a)), sortBy)

RECURSIVE sortBills(_, _)
sortBills(a, sortBy) ==
    IF a = <<>> THEN <<>>
    ELSE LET i == CHOOSE i \in DOMAIN a :
                     /\ \A j \in DOMAIN a : compareBills(a[j], a[i], sortBy) >= 0
                     /\ \A j \in 1..(i - 1) : compareBills(a[j], a[i], sortBy) # 0
         IN  <<a[i]>> \o sortBills(SubSeq(a, 1, i - 1) \o SubSeq(a, i + 1, Len(a)), sortBy)

\* each hook gives what it returns and what it leaves in the array it was given
useFilteredMembers(members_, filter) ==
    LET copy == members_
        byParty == IF Falsy(filter.party) THEN copy
                   ELSE SelectSeq(copy, LAMBDA m : includesOpt(m["PLPT_NM"], filter.party))
        byCommittee == IF Falsy(filter.committee) THEN byParty
                       ELSE SelectSeq(byParty,
                                LAMBDA m : includesOpt(m["CMIT_NM"], filter.committee))
    IN  [returned |-> IF filter.sortBy = "" THEN byCommittee
                      ELSE sortMembers(byCommittee, filter.sortBy),
         argument |-> members_]

useFilteredBills(bills_, filter) ==
    LET copy == bills_
        byCommittee == IF Falsy(filter.committee) THEN copy
                       ELSE SelectSeq(copy,
                                LAMBDA b : includes(b["bill_committee"], filter.committee))
    IN  [returned |-> IF filter.sortBy = "" THEN byCommittee
                      ELSE sortBills(byCommittee, filter.sortBy),
         argument |-> bills_]

TopBillsShown == 3

useTopBills(bills_) ==
    LET sorted == SortDescStable(bills_, "bill_count")
    IN  [returned |-> slice(sorted, TopBillsShown), argument |-> sorted]

\* the distinct strings of a set in code unit order
RECURSIVE sortStrings(_)
sortStrings(S) ==
    IF S = {} THEN <<>>
    ELSE LET least == CHOOSE x \in S : \A y \in S : localeCompare(x, y) <= 0
         IN  <<least>> \o sortStrings(S \ {least})

ALL == <<>>

\* the values of the options of useUniqueOptions, the first is the one for all
uniqueOptions(members_, field) ==
    LET present == {members_[i][field] : i \in DOMAIN members_} \ {undefined, <<>>}
        parts == UNION {{trim(seg) : seg \in Range(split(x, "/"))} : x \in present}
    IN  <<ALL>> \o sortStrings(parts \ {<<>>})

useUniqueOptions(members_) ==
    [partyOptions |-> uniqueOptions(members_, "PLPT_NM"),
     committeeOptions |-> uniqueOptions(members_, "CMIT_NM")]

MemberSorts == {"", "name", "total_count", "total_pass_rate", "lead_count", "party", "bill_name"}

BillSorts == {"", "bill_name", "bill_count", "bill_pass_rate", "bill_committee", "name"}

BillCommittees == {<<"c">>, <<"d">>, <<"c", "/", "d">>}

BillOf(i, committee, count) ==
    [bill_name |-> NameOf("n", i), bill_committee |-> committee,
     bill_count |-> count, bill_pass_rate |-> 50]

BillLists(list) ==
    \E n \in 0..MaxList :
        \E f \in [1..n -> BillCommittees \X LeadCounts] :
            list = [i \in 1..n |-> BillOf(i, f[i][1], f[i][2])]

InitFilteredMembers ==
    /\ hk = "useFilteredMembers"
    /\ MemberLists(input, Affiliations \ {<<"b">>, <<"b", "/">>}, {0, 1})
    /\ param = <<>>
    /\ output = <<>>

\* the page offers the options of the listed members
CallUseFilteredMembers ==
    /\ hk = "useFilteredMembers"
    /\ \E party \in Range(useUniqueOptions(input).partyOptions),
          committee \in {ALL, <<"d">>}, sortBy \in MemberSorts :
          LET filter == [party |-> party, committee |-> committee, sortBy |-> sortBy]
              call == useFilteredMembers(input, filter)
          IN  /\ param' = filter
              /\ output' = call.returned
              /\ input' = call.argument
    /\ hk' = "useFilteredMembers returned"
    /\ UNCHANGED <<backVars, dashVars, fetchVars, staticVars>>

InitBills ==
    /\ hk \in {"useFilteredBills", "useTopBills"}
    /\ BillLists(input)
    /\ param = <<>>
    /\ output = <<>>

CallUseFilteredBills ==
    /\ hk = "useFilteredBills"
    /\ \E committee \in {ALL, <<"c">>, <<"d">>}, sortBy \in BillSorts :
          LET filter == [party |-> ALL, committee |-> committee, sortBy |-> sortBy]
              call == useFilteredBills(input, filter)
          IN  /\ param' = filter
              /\ output' = call.returned
              /\ input' = call.argument
    /\ hk' = "useFilteredBills returned"
    /\ UNCHANGED <<backVars, dashVars, fetchVars, staticVars>>

CallUseTopBills ==
    /\ hk = "useTopBills"
    /\ LET call == useTopBills(input)
       IN  /\ output' = call.returned
           /\ input' = call.argument
    /\ hk' = "useTopBills returned"
    /\ UNCHANGED <<param, backVars, dashVars, fetchVars, staticVars>>

InitHooks ==
    /\ DurationIdle /\ TablesIdle /\ FilesIdle /\ DashboardIdle /\ PageIdle
    /\ InitShortPartyName \/ InitPartyStats \/ InitFilteredMembers \/ InitBills

NextHooks ==
    \/ CallGetShortPartyName
    \/ CallUsePartyStats
    \/ CallUseFilteredMembers
    \/ CallUseFilteredBills
    \/ CallUseTopBills

SpecHooks == InitHooks /\ [][NextHooks]_vars

----------------------------------------------------------------------------
(* Properties of the helpers and hooks *)

\* what follows the last "/" of s, all of s without one
LastSegment(s) ==
    CHOOSE t \in {SubSeq(s, i, Len(s)) : i \in 1..(Len(s) + 1)} :
        /\ \A i \in DOMAIN t : t[i] # "/"
        /\ Len(t) = Len(s) \/ s[Len(s) - Len(t)] = "/"

Canonical(x) ==
    IF x = undefined \/ x = <<>> \/ LastSegment(x) = <<>> THEN INDEPENDENT
    ELSE LastSegment(x)

(* C22: getShortPartyName gives the last "/"-delimited segment of the
   affiliation, '무소속' for a missing or empty affiliation or an empty last
   segment, and the grouping key of usePartyStats is the same value. *)
C22_ShortNameIsLastSegment ==
    hk = "getShortPartyName returned" =>
        /\ output = Canonical(input)
        /\ PartyKey(input) = output

C22_Witness ==
    /\ hk = "getShortPartyName returned"
    /\ input = <<"a", "/", "b">>
    /\ output = <<"b">>
    /\ PartyKey(<<"a", "/">>) = INDEPENDENT

MembersOf(name) == {i \in DOMAIN input : Canonical(input[i]["PLPT_NM"]) = name}

(* C27: the parties usePartyStats returns have distinct names; every member
   is counted in the party of its canonical name and in no other, so each
   count is at least 1 and the counts add up to the number of members;
   totalLeadBills is the sum of lead_count over the party's members; topMembers
   has at most two members, all of the party, and no member of the party left
   out has a larger lead_count than one that is in. *)
C27_PartiesPartitionMembers ==
    hk = "usePartyStats returned" =>
        /\ \A p \in DOMAIN output, q \in DOMAIN output :
              output[p].name = output[q].name => p = q
        /\ \A i \in DOMAIN input :
              \E p \in DOMAIN output : output[p].name = Canonical(input[i]["PLPT_NM"])
        /\ SumSeq(Column(output, "count")) = Len(input)
        /\ \A p \in DOMAIN output :
              LET party == output[p]
                  mine == MembersOf(party.name)
                  top == Range(party.topMembers)
              IN  /\ party.count >= 1
                  /\ party.count = Cardinality(mine)
                  /\ party.totalLeadBills = SumFn([i \in mine |-> input[i]["lead_count"]])
                  /\ Len(party.topMembers) <= 2
                  /\ Cardinality(top) = Len(party.topMembers)
                  /\ top \subseteq {input[i] : i \in mine}
                  /\ \A i \in mine :
                        input[i] \notin top =>
                            /\ Len(party.topMembers) = 2
                            /\ \A t \in top : input[i]["lead_count"] <= t["lead_count"]

C27_Witness ==
    /\ hk = "usePartyStats returned"
    /\ Len(input) = 3 /\ Len(output) = 1
    /\ output[1].name = <<"b">>
    /\ \E i \in DOMAIN input : input[i]["PLPT_NM"] = <<"a", "/", "b">>
    /\ input[1]["lead_count"] = 0
    /\ output[1].totalLeadBills = 3
    /\ Column(output[1].topMembers, "lead_count") = <<2, 1>>

(* C28: useFilteredMembers, useFilteredBills and useTopBills leave the array
   they are given as it was, the same elements in the same order. *)
C28_ArgumentUnchanged ==
    [][(hk \in {"useFilteredMembers", "useFilteredBills", "useTopBills"}) =>
          (input' = input)]_vars

(* C28, the part that holds: the two filtering hooks leave their array as it
   was, and useTopBills leaves it as it was when it is already in descending
   order of bill_count. *)
C28_FilterHooksLeaveArgument ==
    [][/\ (hk \in {"useFilteredMembers", "useFilteredBills"}) => (input' = input)
       /\ (hk = "useTopBills" /\ SortDescStable(input, "bill_count") = input) =>
              (input' = input)]_vars

C28_TopBillsReordered ==
    /\ hk = "useTopBills returned"
    /\ Column(input, "bill_count") = <<2, 1, 0>>
    /\ Column(input, "bill_name") = <<NameOf("n", 3), NameOf("n", 2), NameOf("n", 1)>>

(* C30: for every party option useUniqueOptions offers, useFilteredMembers
   with that option as filter.party (and no committee filter) returns the
   members whose canonical party is the option, in the order of
   filter.sortBy. *)
C30_OptionSelectsCanonicalParty ==
    (/\ hk = "useFilteredMembers returned"
     /\ param.party # ALL /\ param.committee = ALL) =>
        LET mine == SelectSeq(input, LAMBDA m : Canonical(m["PLPT_NM"]) = param.party)
        IN  output = IF param.sortBy = "" THEN mine ELSE sortMembers(mine, param.sortBy)

(* C30, the part that holds: the members returned are those whose PLPT_NM
   contains the option, which include those whose canonical party is the
   option. *)
C30_OptionSelectsContaining ==
    (/\ hk = "useFilteredMembers returned"
     /\ param.party # ALL /\ param.committee = ALL) =>
        /\ Range(output) = {input[i] : i \in {j \in DOMAIN input :
                                includesOpt(input[j]["PLPT_NM"], param.party)}}
        /\ \A i \in DOMAIN input :
              Canonical(input[i]["PLPT_NM"]) = param.party => input[i] \in Range(output)

C30_FormerPartyListed ==
    /\ hk = "useFilteredMembers returned"
    /\ param.party = <<"a">> /\ param.committee = ALL
    /\ Len(input) = 2 /\ Len(output) = 2
    /\ input[1]["PLPT_NM"] = <<"a", "/", "b">>
    /\ input[2]["PLPT_NM"] = <<"a", "b">>

(* C29: every row of the party table has a MEMBER_COUNT that is a number of at
   least 1 and a RATIO that is a number: the left join found the party's
   headcount, RATIO holds no missing marker and was not divided by zero. *)
C29_EveryPartyRowHasHeadcount ==
    nb = "end" =>
        \A r \in Range(data) :
            /\ r["POLY_NM"] \in Range(Column(member_ratio, "POLY_NM"))
            /\ r["MEMBER_COUNT"].k = "num"
            /\ r["MEMBER_COUNT"].n >= r["MEMBER_COUNT"].d
            /\ r["RATIO"].k = "num"

C29_Witness ==
    /\ nb = "end"
    /\ Len(members) = 2 /\ Len(data) = 1
    /\ \E i \in DOMAIN proposers :
          proposers[i]["PROPOSER_ID"] = "m3" /\ proposers[i]["PROPOSER_TYPE"] = LEAD
    /\ data[1]["MEMBER_COUNT"] = Num(1, 1)
    /\ data[1]["RATIO"] = Num(2, 1)

-----------------------------------------------------------------------------
(* The React dashboard: Dashboard (its state and handlers) and useMembers *)

MaxCalls == 3

\* AGE_OPTIONS
Ages == {"", "20", "21", "22"}

TabIds == {"overview", "member-stats", "bill-stats"}

FETCH_FAILED == "members could not be loaded"

\* what GET /members?age= answers with: data.data || []
Answers(age) == {<<>>, <<"m1 of " \o age, "m2 of " \o age>>}

\* if (mounted)
IfAnything(call) == TRUE
IfMounted(call) == call.mounted

\* a call: its age, the mounted flag of its effect, how it was settled and with
\* what, and whether its effect had been cleaned up when it was settled
\* the effect of useMembers for [age]: the cleanup of the effect before it, then
\* setLoading(true), setError(null) and the call
useMembersEffect(age) ==
    /\ um' = [um EXCEPT !.loading = TRUE, !.error = null]
    /\ calls' = Append([i \in DOMAIN calls |-> [calls[i] EXCEPT !.mounted = FALSE]],
                       [age |-> age, mounted |-> TRUE, settled |-> "pending",
                        data |-> <<>>, unmounted |-> FALSE])

\* .then((data) => { if (mounted) { setMembers(data); setLoading(false); } })
GetMembersResolves ==
    \E i \in DOMAIN calls :
        /\ calls[i].settled = "pending"
        /\ \E data_ \in Answers(calls[i].age) :
              /\ calls' = [calls EXCEPT ![i].settled = "resolved", ![i].data = data_,
                                         ![i].unmounted = ~calls[i].mounted]
              /\ um' = IF IfMounted(calls[i])
                       THEN [um EXCEPT !.members = data_, !.loading = FALSE]
                       ELSE um
        /\ UNCHANGED <<dashVars, hookVars, staticVars, backVars>>

\* .catch((err) => { if (mounted) { setError(...); setLoading(false); } })
GetMembersRejects ==
    \E i \in DOMAIN calls :
        /\ calls[i].settled = "pending"
        /\ calls' = [calls EXCEPT ![i].settled = "rejected",
                                   ![i].unmounted = ~calls[i].mounted]
        /\ um' = IF IfMounted(calls[i])
                 THEN [um EXCEPT !.error = FETCH_FAILED, !.loading = FALSE]
                 ELSE um
        /\ UNCHANGED <<dashVars, hookVars, staticVars, backVars>>

\* the component that uses the hook renders with another age
AgeArgumentChanges ==
    /\ Len(calls) < MaxCalls
    /\ \E age \in Ages \ {selectedAge} :
          /\ selectedAge' = age
          /\ useMembersEffect(age)
    /\ UNCHANGED <<activeTab, selectedMember, hookVars, staticVars, backVars>>

\* the hook after its first effect
InitMembers ==
    /\ DurationIdle /\ TablesIdle /\ FilesIdle /\ HooksIdle /\ PageIdle
    /\ activeTab = "overview" /\ selectedMember = null /\ selectedAge = "22"
    /\ um = [members |-> <<>>, loading |-> TRUE, error |-> null]
    /\ calls = <<[age |-> "22", mounted |-> TRUE, settled |-> "pending", data |-> <<>>,
                 unmounted |-> FALSE]>>

NextMembers ==
    \/ AgeArgumentChanges
    \/ GetMembersResolves
    \/ GetMembersRejects

SpecMembers == InitMembers /\ [][NextMembers]_vars

\* Dashboard renders the tabs and the page only when neither loading nor error
PageRendered == ~um.loading /\ um.error = null

\* if (tab !== 'member-stats') setSelectedMember(null)
ResetsNever(tab) == FALSE
ResetsSelection(tab) == tab # "member-stats"

handleTabChange ==
    /\ PageRendered
    /\ \E tab \in TabIds :
          /\ activeTab' = tab
          /\ selectedMember' = IF ResetsSelection(tab) THEN null ELSE selectedMember
    /\ UNCHANGED <<selectedAge, fetchVars, hookVars, staticVars, backVars>>

\* OverviewPage: onMemberSelect={handleMemberSelect}
handleMemberSelect ==
    /\ PageRendered /\ activeTab = "overview"
    /\ \E member \in Range(um.members) :
          /\ selectedMember' = member
          /\ activeTab' = "member-stats"
    /\ UNCHANGED <<selectedAge, fetchVars, hookVars, staticVars, backVars>>

\* MemberStatsPage: onMemberSelect={setSelectedMember}, a member of the list or,
\* from the detail, null
setSelectedMember ==
    /\ PageRendered /\ activeTab = "member-stats"
    /\ \/ selectedMember = null /\ selectedMember' \in Range(um.members)
       \/ selectedMember # null /\ selectedMember' = null
    /\ UNCHANGED <<activeTab, selectedAge, fetchVars, hookVars, staticVars, backVars>>

\* both pages: onAgeChange={handleAgeChange}; the render runs the effect
handleAgeChange ==
    /\ PageRendered /\ activeTab \in {"overview", "member-stats"}
    /\ Len(calls) < MaxCalls
    /\ \E age \in Ages \ {selectedAge} :
          /\ selectedAge' = age
          /\ selectedMember' = null
          /\ useMembersEffect(age)
    /\ UNCHANGED <<activeTab, hookVars, staticVars, backVars>>

\* ErrorMessage: onRetry={() => window.location.reload()}
Reload ==
    /\ um.error # null
    /\ activeTab' = "overview" /\ selectedMember' = null /\ selectedAge' = "22"
    /\ um' = [members |-> <<>>, loading |-> TRUE, error |-> null]
    /\ calls' = <<[age |-> "22", mounted |-> TRUE, settled |-> "pending", data |-> <<>>,
                 unmounted |-> FALSE]>>
    /\ UNCHANGED <<hookVars, staticVars, backVars>>

NextDashboard ==
    \/ handleTabChange
    \/ handleMemberSelect
    \/ setSelectedMember
    \/ handleAgeChange
    \/ Reload
    \/ GetMembersResolves
    \/ GetMembersRejects

SpecDashboard == InitMembers /\ [][NextDashboard]_vars

\* the call of the effect that is still mounted, the one for the present age
Latest == calls[Len(calls)]

(* C23: a response to a call whose age is no longer the hook's argument
   leaves members, loading and error as they are, whichever of the responses
   comes first and whether they succeed or fail; once the call for the present
   age has been answered, the state is its data with error null, or the
   failure message, with loading false. *)
C23_LatestCallWins ==
    [][/\ (\E i \in DOMAIN calls :
              /\ i < Len(calls) /\ Len(calls') = Len(calls)
              /\ calls[i].settled = "pending" /\ calls'[i].settled # "pending")
          => um' = um
       /\ Latest'.settled = "resolved" =>
              um'.members = Latest'.data /\ um'.error = null /\ ~um'.loading
       /\ Latest'.settled = "rejected" =>
              um'.error = FETCH_FAILED /\ ~um'.loading]_vars

C23_Witness ==
    /\ Len(calls) = 2
    /\ calls[1].settled = "resolved" /\ calls[1].data # <<>> /\ calls[1].unmounted
    /\ calls[2].settled = "resolved" /\ calls[2].data # <<>>
    /\ um.members = calls[2].data
    /\ um.members # calls[1].data

(* C24: selectedMember is non-null only while activeTab is 'member-stats', and
   a change of age or a change to another tab leaves selectedMember null. *)
C24_SelectionOnlyOnMemberStats ==
    /\ [](selectedMember # null => activeTab = "member-stats")
    /\ [][(\/ selectedAge' # selectedAge
           \/ (activeTab' # activeTab /\ activeTab' # "member-stats"))
          => selectedMember' = null]_vars

C24_Witness ==
    /\ activeTab = "member-stats" /\ selectedMember = "m2 of 21"
    /\ selectedAge = "21" /\ Len(calls) = 3

-----------------------------------------------------------------------------
(* The static politician page: currentPolitician, the document and the async
   functions between their awaits *)

MaxTasks == 3

Politicians == <<"kim", "lee">>

ListShown == page.display.list # "none"

\* #dashboard has display: none from its class
DashboardShown == page.display.dashboard = "block"

LoadingShown == page.display.loading = "block"

updateStatus(pg, isOnline) ==
    [pg EXCEPT !.statusIndicator = IF isOnline THEN "status-online" ELSE "status-offline"]

showError(pg, message) ==
    updateStatus([pg EXCEPT !.error_container = message], FALSE)

\* apiCall when the fetch failed or the response is not ok, before it throws
apiCallFails(pg) == showError(pg, "api call failed")

renderPoliticianList(pg, politicians) ==
    [pg EXCEPT !.politicianGrid =
        IF politicians = <<>> THEN [kind |-> "none to show", names |-> <<>>]
        ELSE [kind |-> "cards", names |-> politicians]]

showPoliticianList(pg) ==
    [pg EXCEPT !.currentPolitician = null,
               !.display.dashboard = "none",
               !.display.list = "block"]

\* showDashboard up to its await
showDashboardBegins(pg, politicianName) ==
    [pg EXCEPT !.currentPolitician = politicianName,
               !.display.loading = "block",
               !.display.list = "none",
               !.display.dashboard = "none"]

\* showDashboard after its await
showDashboardEnds(pg, politicianName, ok) ==
    IF ok
    THEN [pg EXCEPT !.dashboardTitle = politicianName,
                    !.display.loading = "none",
                    !.display.dashboard = "block"]
    ELSE showPoliticianList(
             showError([apiCallFails(pg) EXCEPT !.display.loading = "none"],
                       "no data of the politician"))

\* loadPoliticians after its await
loadPoliticiansEnds(pg, politicians, ok) ==
    IF ok THEN updateStatus(renderPoliticianList(pg, politicians), TRUE)
    ELSE showError(apiCallFails(pg), "no list of politicians")

\* refreshAllData from updateStatus(true), or from its catch, through finally
refreshAllDataEnds(pg, ok) ==
    [(IF ok THEN updateStatus(pg, TRUE) ELSE showError(pg, "update failed"))
        EXCEPT !.refreshBtn.disabled = FALSE]

Task(kind, at, name) == [kind |-> kind, at |-> at, name |-> name, failed |-> FALSE]

Awaiting(at) == {i \in DOMAIN tasks : tasks[i].at = at}

\* a card's onclick
ClickCard ==
    /\ Len(tasks) < MaxTasks
    /\ ListShown /\ page.politicianGrid.kind = "cards"
    /\ \E politicianName \in Range(page.politicianGrid.names) :
          /\ page' = showDashboardBegins(page, politicianName)
          /\ tasks' = Append(tasks, Task("showDashboard", "detailed", politicianName))
    /\ UNCHANGED <<hookVars, dashVars, fetchVars, backVars>>

ClickBack ==
    /\ DashboardShown
    /\ page' = showPoliticianList(page)
    /\ UNCHANGED <<tasks, hookVars, dashVars, fetchVars, backVars>>

PressEscape ==
    /\ page.currentPolitician # null
    /\ page' = showPoliticianList(page)
    /\ UNCHANGED <<tasks, hookVars, dashVars, fetchVars, backVars>>

\* the button while it is enabled, F5 or Ctrl+R at any time
refreshAllDataBegins ==
    /\ Len(tasks) < MaxTasks
    /\ page' = [page EXCEPT !.refreshBtn.disabled = TRUE]
    /\ tasks' = Append(tasks, Task("refreshAllData", "refresh", null))
    /\ UNCHANGED <<hookVars, dashVars, fetchVars, backVars>>

\* POST /politicians/refresh answers
RefreshAnswered ==
    \E i \in Awaiting("refresh"), ok \in BOOLEAN :
        /\ IF ok
           THEN /\ tasks' = [tasks EXCEPT ![i].at = "politicians"]
                /\ page' = page
           ELSE /\ tasks' = [tasks EXCEPT ![i].at = "done", ![i].failed = TRUE]
                /\ page' = refreshAllDataEnds(apiCallFails(page), FALSE)
        /\ UNCHANGED <<hookVars, dashVars, fetchVars, backVars>>

\* GET /politicians answers: loadPoliticians ends, and refreshAllData goes on
\* to showDashboard or to its end
PoliticiansAnswered ==
    \E i \in Awaiting("politicians"), ok \in BOOLEAN, politicians \in {<<>>, Politicians} :
        LET loaded_ == loadPoliticiansEnds(page, politicians, ok)
            failed == tasks[i].failed \/ ~ok
        IN  /\ ~ok => politicians = <<>>
            /\ IF tasks[i].kind = "loadPoliticians"
               THEN /\ page' = loaded_
                    /\ tasks' = [tasks EXCEPT ![i].at = "done", ![i].failed = failed]
               ELSE IF loaded_.currentPolitician # null /\ loaded_.display.dashboard # "none"
               THEN /\ page' = showDashboardBegins(loaded_, loaded_.currentPolitician)
                    /\ tasks' = [tasks EXCEPT ![i].at = "detailed", ![i].failed = failed,
                                              ![i].name = loaded_.currentPolitician]
               ELSE /\ page' = refreshAllDataEnds(loaded_, TRUE)
                    /\ tasks' = [tasks EXCEPT ![i].at = "done", ![i].failed = failed]
            /\ UNCHANGED <<hookVars, dashVars, fetchVars, backVars>>

\* GET /politicians/{name}/detailed answers: showDashboard ends, and the
\* refreshAllData that awaited it
DetailedAnswered ==
    \E i \in Awaiting("detailed"), ok \in BOOLEAN :
        LET shown == showDashboardEnds(page, tasks[i].name, ok)
        IN  /\ page' = IF tasks[i].kind = "refreshAllData"
                       THEN refreshAllDataEnds(shown, TRUE)
                       ELSE shown
            /\ tasks' = [tasks EXCEPT ![i].at = "done",
                                      ![i].failed = tasks[i].failed \/ ~ok]
            /\ UNCHANGED <<hookVars, dashVars, fetchVars, backVars>>

\* setInterval: GET /health
HealthCheckBegins ==
    /\ Len(tasks) < MaxTasks
    /\ tasks' = Append(tasks, Task("health", "health", null))
    /\ UNCHANGED <<page, hookVars, dashVars, fetchVars, backVars>>

HealthAnswered ==
    \E i \in Awaiting("health"), ok \in BOOLEAN :
        /\ page' = IF ok THEN updateStatus(page, TRUE)
                   ELSE updateStatus(apiCallFails(page), FALSE)
        /\ tasks' = [tasks EXCEPT ![i].at = "done", ![i].failed = ~ok]
        /\ UNCHANGED <<hookVars, dashVars, fetchVars, backVars>>

\* setTimeout of showError: the message is taken away
ErrorTimeout ==
    /\ page.error_container # ""
    /\ page' = [page EXCEPT !.error_container = ""]
    /\ UNCHANGED <<tasks, hookVars, dashVars, fetchVars, backVars>>

\* DOMContentLoaded has called loadPoliticians
InitPage ==
    /\ DurationIdle /\ TablesIdle /\ FilesIdle /\ HooksIdle /\ DashboardIdle
    /\ page = Document
    /\ tasks = <<Task("loadPoliticians", "politicians", null)>>

NextPage ==
    \/ ClickCard
    \/ ClickBack
    \/ PressEscape
    \/ refreshAllDataBegins
    \/ RefreshAnswered
    \/ PoliticiansAnswered
    \/ DetailedAnswered
    \/ HealthCheckBegins
    \/ HealthAnswered
    \/ ErrorTimeout

SpecPage == InitPage /\ [][NextPage]_vars

(* C25: whatever the order of the detail response, the returns to the list
   and the refreshes, at most one of the list, the dashboard and the loading
   indicator is displayed, and the dashboard is displayed only while
   currentPolitician is not null. *)
C25_OnePanelAtATime ==
    /\ Cardinality({panel \in {"list", "dashboard", "loading"} :
                       \/ panel = "list" /\ ListShown
                       \/ panel = "dashboard" /\ DashboardShown
                       \/ panel = "loading" /\ LoadingShown}) <= 1
    /\ DashboardShown => page.currentPolitician # null

(* C26: when refreshAllData ends, the status indicator shows online only if
   no API call of that refresh failed. *)
C26_OnlineOnlyAfterCleanRefresh ==
    [][\A i \in DOMAIN tasks :
          (/\ Len(tasks') = Len(tasks)
           /\ tasks[i].kind = "refreshAllData"
           /\ tasks[i].at # "done" /\ tasks'[i].at = "done"
           /\ page'.statusIndicator = "status-online")
              => ~tasks'[i].failed]_vars

====
